---- MODULE Spec2Model ----
(***************************************************************************)
(* managed-opfs: the reader/writer scheduler of src/mutex.ts, the catalog   *)
(* table of src/catalogdb.ts and the blob/catalog coordination of           *)
(* ManagedOpfs.                                                             *)
(*                                                                          *)
(* The specifications sharing this module:                                  *)
(*   SpecMutex   - one instance decorated with @mutex / @mutex.readonly     *)
(*   SpecCatalog - direct calls of Catalogdb create/move/copy/update/delete *)
(*   SpecFs      - ManagedOpfs writeFile / readFile / moveFile over the     *)
(*                 catalog and the main/ blob directory                     *)
(*   SpecFile    - writeFile / copyFile / removeFile / exists / readFile    *)
(*   SpecOverwrite - writeFile / overwriteFile / createOverwritable and the *)
(*                 methods of OverwritableFileStream                        *)
(*   SpecWritable - writeFile / createWritable and the methods of           *)
(*                 WritableFileStream                                       *)
(*   SpecList    - Catalogdb create / delete / list                         *)
(*   SpecSize    - Catalogdb create / update at the size limits             *)
(*   SpecLife    - the stream methods close / abort after the stream ended  *)
(*   SpecReopen  - the stream methods across ManagedOpfs close / open       *)
(*   SpecMeta    - overwriteFile without data                               *)
(*   SpecMutexLive - SpecMutex with weak fairness of the promise jobs       *)
(*   SpecChunk   - SpecLife plus write() of an empty chunk                  *)
(*   SpecOwn     - one WritableFileStream under its own scheduler           *)
(*   SpecHeal    - readFile / exists / copyFile after a stream repointed a  *)
(*                 row                                                      *)
(*   SpecDrain   - ManagedOpfs close against the methods of an open stream  *)
(***************************************************************************)
EXTENDS Integers, Sequences, FiniteSets, TLC

\* ---------------------------------------------------------------- bounds
MaxOps == 4
MaxEntity == 3       \* distinct entity ids (UUIDs) in play
MaxFsOps == 2        \* ManagedOpfs invocations
MaxFaults == 1       \* injected blob-store / engine faults
MaxFileOps == 3      \* ManagedOpfs invocations of the file-lifecycle workload
MaxStreamOps == 3    \* ManagedOpfs invocations of the stream workloads
MaxWritableOps == 2  \* ManagedOpfs invocations of the writable-stream workload
MaxWrites == 1       \* write(chunk) calls on one stream
MaxLifeOps == 3      \* ManagedOpfs invocations of the stream-lifecycle workload
MaxReopenOps == 4    \* ManagedOpfs invocations of the closed-manager workload
MaxMetaOps == 3      \* ManagedOpfs invocations of the side-data workload
MaxHealOps == 3      \* ManagedOpfs invocations of the reader-against-commit workload
MaxDrainOps == 3     \* ManagedOpfs invocations of the close-against-stream workload
MaxCleanupOps == 3   \* ManagedOpfs invocations of the failing-cleanup workload
MaxPage == 2         \* largest limit and offset passed to list

VARIABLES
    mq,      \* this[QUEUE]: sequence of slot ids, head first
    slots,   \* every QueueItem ever created, by id: kind, ready resolved?, steps, count
    mops,    \* every invocation, in invocation order
    catalog, \* table file_v0: a set of rows
    cres,    \* outcome of the latest direct Catalogdb call; disconnect: #conn is null
    blobs,   \* directory main/: entity id -> bytes, for the entries that exist
    nextId,  \* the next entity id getEntityId() hands out
    opened,  \* ManagedOpfs.#bucket !== null
    fops,    \* the method body of every ManagedOpfs invocation: position and locals
    faults,  \* blob-store and engine faults injected so far
    written, \* history: the (entity id, path, data, options) of every committed writeFile
    streams  \* every WritableFileStream / OverwritableFileStream created: fields and position

mvars == <<mq, slots, mops>>
cvars == <<catalog, cres>>
fvars == <<blobs, nextId, opened, fops, faults, written, streams>>

\* ------------------------------------------------------------ scheduler
\* The three structures the closures of mutex.ts read and write.
Sched == [mq |-> mq, slots |-> slots, mops |-> mops]

\* queue[queue.length - 1], 0 when the queue is empty
LatestItem(S) == IF S.mq = <<>> THEN 0 ELSE S.mq[Len(S.mq)]

\* queue.shift() without starting the new head
ShiftSilent(S) ==
    [S EXCEPT !.mq = IF S.mq = <<>> THEN <<>> ELSE Tail(S.mq)]

\* queue.shift(); queue[0]?.start();
Shift(S) ==
    LET q == IF S.mq = <<>> THEN <<>> ELSE Tail(S.mq)
    IN  [S EXCEPT !.mq = q,
                  !.slots = IF q = <<>> THEN @
                            ELSE [@ EXCEPT ![q[1]].started = TRUE]]

\* next() of mutexClassMethod, closed over writableItem = slot s.
\* A step is either the next() of the writer that found steps empty, or the
\* resolve() of a later writer's stepPromise.
RECURSIVE NextW(_, _)
NextW(S, s) ==
    IF S.slots[s].steps = <<>>
    THEN Shift(S)
    ELSE LET step == Head(S.slots[s].steps)
             S1   == [S EXCEPT !.slots[s].steps = Tail(@)]
         IN  IF step.t = "resolve"
             THEN [S1 EXCEPT !.mops[step.op].stepOk = TRUE]
             ELSE NextW(S1, S1.mops[step.op].slot)

\* next() of mutexReadonlyClassMethod, closed over readonlyItem = slot s.
NextR(S, s) ==
    LET S1 == [S EXCEPT !.slots[s].count = @ - 1]
    IN  IF S1.slots[s].count = 0 THEN Shift(S1) ELSE S1

\* .finally(next): next runs whether the method fulfilled or rejected.
ThenNext(S, i, out) ==
    IF out = "ok"
    THEN IF S.mops[i].kind = "W" THEN NextW(S, S.mops[i].slot)
                                 ELSE NextR(S, S.mops[i].slot)
    ELSE S
FinallyNext(S, i, out) ==
    IF S.mops[i].kind = "W" THEN NextW(S, S.mops[i].slot)
                            ELSE NextR(S, S.mops[i].slot)

\* The promise chain of an invocation has reached method.apply:
\* writers wait for writableItem.ready, then for stepPromise;
\* readers wait for readonlyItem.ready only.
ReadyW(S, i) == S.slots[S.mops[i].slot].started /\ S.mops[i].stepOk
ReadyAlone(S, i) ==
    /\ S.slots[S.mops[i].slot].started
    /\ \A j \in 1..Len(S.mops) :
          (j # i /\ S.mops[j].slot = S.mops[i].slot) => S.mops[j].st # "running"
ReadyR(S, i) == S.slots[S.mops[i].slot].started

\* --------------------------------------------------------------- actions
\* The instances after construction (initializeInstance has defined an empty
\* queue) and, for ManagedOpfs, after open() on an empty bucket.
Init ==
    /\ mq = <<>>
    /\ slots = <<>>
    /\ mops = <<>>
    /\ catalog = {}
    /\ cres = [op |-> "none", err |-> "none"]
    /\ blobs = <<>>
    /\ nextId = 1
    /\ opened = TRUE
    /\ fops = <<>>
    /\ faults = 0
    /\ written = {}
    /\ streams = <<>>

\* mutexClassMethod(...args), the synchronous part
InvokeW ==
    /\ Len(mops) < MaxOps
    /\ LET n       == Len(mops) + 1
           latest  == LatestItem(Sched)
           fresh   == latest = 0 \/ slots[latest].kind = "R"
           s       == IF fresh THEN Len(slots) + 1 ELSE latest
           slots1  == IF fresh
                      THEN Append(slots, [kind |-> "W", started |-> (latest = 0),
                                          steps |-> <<>>, count |-> 0])
                      ELSE slots
           first   == slots1[s].steps = <<>>
           step    == IF first THEN [t |-> "next", op |-> n]
                               ELSE [t |-> "resolve", op |-> n]
       IN  /\ mq' = IF fresh THEN Append(mq, s) ELSE mq
           /\ slots' = [slots1 EXCEPT ![s].steps = Append(@, step)]
           /\ mops' = Append(mops, [kind |-> "W", slot |-> s, stepOk |-> first,
                                    st |-> "pending", out |-> "none", res |-> "none"])

\* mutexReadonlyClassMethod(...args), the synchronous part
InvokeR ==
    /\ Len(mops) < MaxOps
    /\ LET latest  == LatestItem(Sched)
           fresh   == latest = 0 \/ slots[latest].kind = "W"
           s       == IF fresh THEN Len(slots) + 1 ELSE latest
           slots1  == IF fresh
                      THEN Append(slots, [kind |-> "R", started |-> (latest = 0),
                                          steps |-> <<>>, count |-> 0])
                      ELSE slots
       IN  /\ mq' = IF fresh THEN Append(mq, s) ELSE mq
           /\ slots' = [slots1 EXCEPT ![s].count = @ + 1]
           /\ mops' = Append(mops, [kind |-> "R", slot |-> s, stepOk |-> TRUE,
                                    st |-> "pending", out |-> "none", res |-> "none"])

\* .then(() => method.apply(this, args)) of a writer
BeginW(i) ==
    /\ mops[i].kind = "W"
    /\ mops[i].st = "pending"
    /\ ReadyW(Sched, i)
    /\ mops' = [mops EXCEPT ![i].st = "running"]
    /\ UNCHANGED <<mq, slots>>

\* .then(() => method.apply(this, args)) of a reader
BeginR(i) ==
    /\ mops[i].kind = "R"
    /\ mops[i].st = "pending"
    /\ ReadyR(Sched, i)
    /\ mops' = [mops EXCEPT ![i].st = "running"]
    /\ UNCHANGED <<mq, slots>>

\* the method's promise settles: fulfilled ("ok") or rejected ("err")
Settle(i, out) ==
    /\ mops[i].st = "running"
    /\ mops' = [mops EXCEPT ![i].st = "settled", ![i].out = out]
    /\ UNCHANGED <<mq, slots>>

\* the .finally(next) callback runs; the caller's promise settles as the method's
Finally(i) ==
    /\ mops[i].st = "settled"
    /\ LET S == FinallyNext(Sched, i, mops[i].out)
       IN  /\ mq' = S.mq
           /\ slots' = S.slots
           /\ mops' = [S.mops EXCEPT ![i].st = "done", ![i].res = mops[i].out]


\* =============================================================== catalog
\* Values standing for JavaScript undefined and SQL NULL.
Undef == "undefined"
Null == "NULL"
\* Optional numbers and checksums: None for undefined, Some(x) for a value
None == {}
Some(x) == {x}
The(o) == CHOOSE x \in o : TRUE

Paths == {"a.txt", "b"}
EntityIds == 1..MaxEntity
\* readings of Date.now()
Times == {1, 2}
Datas == {<<>>, <<7>>}
MimeOpts == {Undef, "image/png"}
DescOpts == {Undef, "foo"}

\* Path: segments of a full path, and its last segment
Segments(p) == IF p = "a.txt" THEN <<"a.txt">> ELSE <<"b">>
Basename(p) == Segments(p)[Len(Segments(p))]

\* getMimeType: mime.getType(path) ?? "application/octet-stream"
GetMimeType(name) ==
    IF name = "a.txt" THEN "text/plain" ELSE "application/octet-stream"

\* hash.digest: the MD5 of a byte sequence, kept symbolic
Md5(d) == <<"md5", d>>

\* the size options of the catalog under test
MaxDescriptionSize == 16
MaxMetadataJsonSize == 16

\* newSizeLimitedString(limit): v.maxLength(Math.floor(limit / 2)) accepts s
NewSizeLimitedString(limit, s) == Len(s) <= limit \div 2

\* toFullTextSearchString, the default (desc => desc)
ToFtsStr(desc) == desc

\* #toFtsStr accepts desc: parseDescRaw, then parseFtsStr of the transformed
\* text against twice the description size
FtsStrOk(desc) ==
    /\ NewSizeLimitedString(MaxDescriptionSize, desc)
    /\ NewSizeLimitedString(MaxDescriptionSize * 2, ToFtsStr(desc))

\* json.stringify of a metadata value; the metadata values are strings
JsonStringify(o) == "\"" \o o \o "\""

\* #metaJson.stringify accepts o: parseMetaJs of the stringified JSON
MetaJsonOk(o) == NewSizeLimitedString(MaxMetadataJsonSize, JsonStringify(o))

\* PRIMARY KEY (fullpath): some row of tab other than those in skip has fullpath p
DupFullpath(tab, skip, p) == \E r \in tab \ skip : r.fullpath = p

\* UNIQUE INDEX file_v0__entityid__idx: some row other than those in skip has entityid e
DupEntityNever(tab, skip, e) == FALSE
DupEntity(tab, skip, e) == \E r \in tab \ skip : r.entityid = e

RowsAt(tab, p) == {r \in tab : r.fullpath = p}

\* Catalogdb.create
CatCreate(tab, inp, now) ==
    LET mimeTyp == IF inp.mimeType = Undef
                   THEN GetMimeType(Basename(inp.filePath)) ELSE inp.mimeType
        descRaw == IF inp.description = Undef THEN Null ELSE inp.description
        descFts == IF descRaw = Null THEN Null ELSE ToFtsStr(descRaw)
        metaJs  == IF inp.metadata \in {Undef, Null} THEN Null
                   ELSE JsonStringify(inp.metadata)
        row == [fullpath |-> inp.filePath,
                path_seg |-> Segments(inp.filePath),
                entityid |-> inp.entityId,
                hash_md5 |-> inp.checksum,
                mime_typ |-> mimeTyp,
                cont_len |-> inp.fileSize,
                last_mod |-> now,
                desc_raw |-> descRaw,
                desc_fts |-> descFts,
                meta_js  |-> metaJs]
    IN  IF descRaw # Null /\ ~FtsStrOk(descRaw)
        THEN [tab |-> tab, err |-> "ValiError"]
        ELSE IF inp.metadata \notin {Undef, Null} /\ ~MetaJsonOk(inp.metadata)
        THEN [tab |-> tab, err |-> "ValiError"]
        ELSE IF DupFullpath(tab, {}, inp.filePath)
        THEN [tab |-> tab, err |-> "FileExists"]
        ELSE IF DupEntity(tab, {}, inp.entityId)
        THEN [tab |-> tab, err |-> "ConstraintError"]
        ELSE [tab |-> tab \cup {row}, err |-> "none"]

\* Catalogdb.read / readEntityId: rows.at(0) of the SELECT, Null when no row
CatRead(tab, p) ==
    IF RowsAt(tab, p) = {} THEN Null ELSE CHOOSE r \in RowsAt(tab, p) : TRUE

\* Catalogdb.move: UPDATE file_v0 SET fullpath = dst, path_seg = ... WHERE
\* fullpath = src.  No row matched gives FileNotFound, a duplicate-key error
\* of the engine gives FileExists.  The source never compares src with dst:
\* when a row is moved onto its own path the statement rewrites the row
\* under the key it already has, and whether the engine's primary-key check
\* counts the row being rewritten is the engine's.  eager is that choice:
\* TRUE when the rewritten row itself counts as a duplicate.
CatMove(tab, src, dst, eager) ==
    LET hit == RowsAt(tab, src)
        upd == {[r EXCEPT !.fullpath = dst, !.path_seg = Segments(dst)] : r \in hit}
        skip == IF eager THEN {} ELSE hit
    IN  IF hit = {}
        THEN [tab |-> tab, err |-> "FileNotFound"]
        ELSE IF DupFullpath(tab, skip, dst)
        THEN [tab |-> tab, err |-> "FileExists"]
        ELSE [tab |-> (tab \ hit) \cup upd, err |-> "none"]

\* Catalogdb.copy
CatCopy(tab, src, dst, dstEntityId) ==
    LET hit == RowsAt(tab, src)
        ins == {[r EXCEPT !.fullpath = dst, !.path_seg = Segments(dst),
                          !.entityid = dstEntityId] : r \in hit}
    IN  IF hit = {}
        THEN [tab |-> tab, err |-> "FileNotFound"]
        ELSE IF DupFullpath(tab, {}, dst)
        THEN [tab |-> tab, err |-> "FileExists"]
        ELSE IF DupEntity(tab, {}, dstEntityId)
        THEN [tab |-> tab, err |-> "ConstraintError"]
        ELSE [tab |-> tab \cup ins, err |-> "none"]

\* Catalogdb.update
CatUpdate(tab, p, u, now) ==
    LET allUndef == /\ u.checksum = None /\ u.fileSize = None
                    /\ u.metadata = Undef /\ u.mimeType = Undef
                    /\ u.description = Undef
                    /\ u.newEntityId = None /\ u.oldEntityId = None
        hit == {r \in RowsAt(tab, p) :
                   u.oldEntityId = None \/ r.entityid = The(u.oldEntityId)}
        Upd(r) == [r EXCEPT
            !.last_mod = now,
            !.entityid = IF u.newEntityId = None THEN @ ELSE The(u.newEntityId),
            !.hash_md5 = IF u.checksum = None THEN @ ELSE The(u.checksum),
            !.mime_typ = IF u.mimeType = Undef THEN @ ELSE u.mimeType,
            !.cont_len = IF u.fileSize = None THEN @ ELSE The(u.fileSize),
            !.desc_raw = IF u.description = Undef THEN @ ELSE u.description,
            !.desc_fts = IF u.description = Undef THEN @
                         ELSE IF u.description = Null THEN Null
                         ELSE ToFtsStr(u.description),
            !.meta_js  = IF u.metadata = Undef THEN @
                         ELSE IF u.metadata = Null THEN Null
                         ELSE JsonStringify(u.metadata)]
    IN  IF allUndef
        THEN [tab |-> tab,
              err |-> IF RowsAt(tab, p) = {} THEN "FileNotFound" ELSE "none"]
        ELSE IF u.description \notin {Undef, Null} /\ ~FtsStrOk(u.description)
        THEN [tab |-> tab, err |-> "ValiError"]
        ELSE IF u.metadata \notin {Undef, Null} /\ ~MetaJsonOk(u.metadata)
        THEN [tab |-> tab, err |-> "ValiError"]
        ELSE IF hit = {}
        THEN [tab |-> tab, err |-> "FileNotFound"]
        ELSE IF u.newEntityId # None /\ DupEntity(tab, hit, The(u.newEntityId))
        THEN [tab |-> tab, err |-> "ConstraintError"]
        ELSE [tab |-> (tab \ hit) \cup {Upd(r) : r \in hit}, err |-> "none"]

\* Catalogdb.delete
CatDeleteNothing(tab, p) ==
    [tab |-> tab, err |-> IF RowsAt(tab, p) = {} THEN "FileNotFound" ELSE "none"]
CatDelete(tab, p) ==
    IF RowsAt(tab, p) = {}
    THEN [tab |-> tab, err |-> "FileNotFound"]
    ELSE [tab |-> tab \ RowsAt(tab, p), err |-> "none"]

\* ------------------------------------------- direct calls of Catalogdb
\* The inputs of the direct calls: a file's checksum and size come from the
\* same bytes; MIME type and description are either both left out or both given.
CreateInputs ==
    {[filePath |-> p, entityId |-> e, checksum |-> Md5(d), fileSize |-> Len(d),
      mimeType |-> o[1], description |-> o[2], metadata |-> Undef] :
        p \in Paths, e \in EntityIds, d \in Datas,
        o \in {<<Undef, Undef>>, <<"image/png", "foo">>}}

\* update is called either with side-metadata only, or with a new entity id
\* together with the checksum and size of the new content.
UpdateInputs ==
    {[checksum |-> None, fileSize |-> None, metadata |-> Undef,
      mimeType |-> m, description |-> d,
      newEntityId |-> None, oldEntityId |-> None] :
        m \in MimeOpts, d \in {Undef, Null, "foo"}}
    \cup
    {[checksum |-> Some(Md5(<<7>>)), fileSize |-> Some(1), metadata |-> Undef,
      mimeType |-> Undef, description |-> Undef,
      newEntityId |-> Some(n), oldEntityId |-> o] :
        n \in EntityIds, o \in {None} \cup {Some(e) : e \in EntityIds}}

Apply(op, r) ==
    /\ catalog' = r.tab
    /\ cres' = [op |-> op, err |-> r.err]

Create ==
    \E inp \in CreateInputs : \E now \in Times :
        Apply("create", CatCreate(catalog, inp, now))

Move ==
    \E src, dst \in Paths : \E eager \in BOOLEAN :
        Apply("move", CatMove(catalog, src, dst, eager))

Copy ==
    \E src, dst \in Paths : \E e \in EntityIds :
        Apply("copy", CatCopy(catalog, src, dst, e))

Update ==
    \E p \in Paths : \E u \in UpdateInputs : \E now \in Times :
        Apply("update", CatUpdate(catalog, p, u, now))

Delete == \E p \in Paths : Apply("delete", CatDelete(catalog, p))

\* Catalogdb.list: the distinct immediate children of dirPath
Children(tab, dir) ==
    {[name |-> r.path_seg[Len(dir) + 1], isFile |-> (Len(r.path_seg) = Len(dir) + 1)] :
        r \in {x \in tab : /\ Len(x.path_seg) >= Len(dir) + 1
                            /\ \A i \in 1..Len(dir) : x.path_seg[i] = dir[i]}}

\* the collation order of the names in play
NameRank(n) == IF n = "a.txt" THEN 1 ELSE 2

\* ORDER BY is_file ASC, name {ASC|DESC}
Before(x, y, orderByName) ==
    IF x.isFile # y.isFile THEN ~x.isFile
    ELSE IF orderByName = "ASC" THEN NameRank(x.name) < NameRank(y.name)
    ELSE NameRank(x.name) > NameRank(y.name)

RECURSIVE Ordered(_, _)
Ordered(S, orderByName) ==
    IF S = {} THEN <<>>
    ELSE LET m == CHOOSE x \in S : \A y \in S \ {x} : Before(x, y, orderByName)
         IN  <<m>> \o Ordered(S \ {m}, orderByName)

\* LIMIT n: appended when limit !== undefined && limit > 0
Limited(q, limit) ==
    IF limit # None /\ The(limit) > 0 /\ The(limit) < Len(q)
    THEN SubSeq(q, 1, The(limit)) ELSE q

\* OFFSET k: appended when offset > 0
Skipped(q, offset) == SubSeq(q, offset + 1, Len(q))

CatList(tab, inp) ==
    Limited(Skipped(Ordered(Children(tab, inp.dirPath), inp.orderByName), inp.offset),
            inp.limit)

\* list(dirPath, {limit, offset, orderByName}) with offset defaulting to 0 and
\* orderByName to "ASC"
ListInputs ==
    [dirPath : {<<>>}, limit : {None} \cup {Some(n) : n \in 0..MaxPage},
     offset : 0..MaxPage, orderByName : {"ASC", "DESC"}]

List ==
    \E inp \in ListInputs :
        /\ catalog' = catalog
        /\ cres' = [op |-> "list", err |-> "none", inp |-> inp,
                    out |-> CatList(catalog, inp)]

ListNext ==
    \/ Create /\ UNCHANGED <<mvars, fvars>>
    \/ Delete /\ UNCHANGED <<mvars, fvars>>
    \/ List /\ UNCHANGED <<mvars, fvars>>

\* ----------------------------------- calls at the boundaries of the sizes
\* a text of n characters
RECURSIVE Repeat(_)
Repeat(n) == IF n = 1 THEN "x" ELSE "x" \o Repeat(n - 1)

\* descriptions of floor(L/2) and floor(L/2) + 1 characters
DescTexts ==
    {Repeat(n) : n \in {MaxDescriptionSize \div 2, MaxDescriptionSize \div 2 + 1}}

\* metadata strings whose JSON has floor(M/2), floor(M/2) + 1, M and M + 1
\* characters (the JSON of a string adds the two quotes)
MetaValues ==
    {Repeat(n - 2) : n \in {MaxMetadataJsonSize \div 2, MaxMetadataJsonSize \div 2 + 1,
                            MaxMetadataJsonSize, MaxMetadataJsonSize + 1}}

SizeCreateInputs ==
    {[filePath |-> p, entityId |-> e, checksum |-> Md5(<<>>), fileSize |-> 0,
      mimeType |-> Undef, description |-> d, metadata |-> m] :
        p \in Paths, e \in EntityIds,
        d \in {Undef} \cup DescTexts, m \in {Undef} \cup MetaValues}

SizeUpdateInputs ==
    {[checksum |-> None, fileSize |-> None, metadata |-> m,
      mimeType |-> Undef, description |-> d,
      newEntityId |-> None, oldEntityId |-> None] :
        d \in {Undef} \cup DescTexts, m \in {Undef} \cup MetaValues}

ApplySized(op, inp, r) ==
    /\ catalog' = r.tab
    /\ cres' = [op |-> op, err |-> r.err, inp |-> inp]

SizedCreate ==
    \E inp \in SizeCreateInputs : \E now \in Times :
        ApplySized("create", inp, CatCreate(catalog, inp, now))

SizedUpdate ==
    \E p \in Paths : \E u \in SizeUpdateInputs : \E now \in Times :
        ApplySized("update", u, CatUpdate(catalog, p, u, now))

SizeNext ==
    \/ SizedCreate /\ UNCHANGED <<mvars, fvars>>
    \/ SizedUpdate /\ UNCHANGED <<mvars, fvars>>
    \/ Delete /\ UNCHANGED <<mvars, fvars>>

CatalogNext ==
    \/ Create /\ UNCHANGED <<mvars, fvars>>
    \/ Move /\ UNCHANGED <<mvars, fvars>>
    \/ Copy /\ UNCHANGED <<mvars, fvars>>
    \/ Update /\ UNCHANGED <<mvars, fvars>>
    \/ Delete /\ UNCHANGED <<mvars, fvars>>


\* ============================================================ ManagedOpfs
\* The calls made on the instance: writeFile(path, data, {mimeType}),
\* readFile(path), moveFile(path, dst).
FsCalls ==
    {[op |-> "write", path |-> p, dst |-> p, data |-> o[1], mime |-> o[2]] :
        p \in Paths, o \in {<<(<<>>), Undef>>, <<(<<7>>), "image/png">>}}
    \cup {[op |-> "read", path |-> p, dst |-> p, data |-> <<>>, mime |-> Undef] :
        p \in Paths}
    \cup {[op |-> "move", path |-> p, dst |-> q, data |-> <<>>, mime |-> Undef] :
        p \in Paths, q \in Paths}

\* @mutex or @mutex.readonly on the method
Decorator(op) ==
    IF op \in {"read", "exists", "createWritable", "createOverwritable"}
    THEN "R" ELSE "W"

\* locals of a method body before it starts, and after its promise has settled
Fresh(c) ==
    [op |-> c.op, path |-> c.path, dst |-> c.dst, data |-> c.data, mime |-> c.mime,
     view |-> (c.op # "overwrite" \/ c.view),
     pc |-> "entry", eid |-> 0, old |-> 0, err |-> "none", ret |-> "none",
     row |-> None, content |-> None]
Retired ==
    [op |-> "done", path |-> "a.txt", dst |-> "a.txt", data |-> <<>>, mime |-> Undef,
     view |-> TRUE,
     pc |-> "settled", eid |-> 0, old |-> 0, err |-> "none", ret |-> "none",
     row |-> None, content |-> None]

\* the first suspension point of each method, reached synchronously from method.apply
FirstPc(op) ==
    CASE op = "write" -> "alloc"
      [] op = "read" -> "read"
      [] op = "move" -> "move"
      [] op = "copy" -> "cread"
      [] op = "remove" -> "rread"
      [] op = "exists" -> "eread"
      [] op = "overwrite" -> "oread"
      [] op = "createWritable" -> "cwalloc"
      [] op = "createOverwritable" -> "coread"
      [] op = "open" -> "mopen"
      [] op = "close" -> "mclose"

\* the arguments writeFile passes to catalog.create
CreateInputNoMime(o) ==
    [filePath |-> o.path, entityId |-> o.eid, checksum |-> Md5(o.data),
     fileSize |-> Len(o.data), mimeType |-> Undef,
     description |-> Undef, metadata |-> Undef]
CreateInput(o) ==
    [filePath |-> o.path, entityId |-> o.eid, checksum |-> Md5(o.data),
     fileSize |-> Len(o.data), mimeType |-> o.mime,
     description |-> Undef, metadata |-> Undef]

\* removeEntry(name)
RemoveEntryKeep(bl, e) == bl
RemoveEntry(bl, e) == [x \in (DOMAIN bl) \ {e} |-> bl[x]]

\* getFileHandle(name, {create: true}): an existing entry is kept, a new one is empty
CreateEntry(bl, e) == [x \in (DOMAIN bl) \cup {e} |-> IF x \in DOMAIN bl THEN bl[x] ELSE <<>>]

\* writer.close(): the written bytes replace the entry's content
CommitEntry(bl, e, d) == [x \in (DOMAIN bl) \cup {e} |-> IF x = e THEN d ELSE bl[x]]

\* the File returned by readFile: catalog columns plus the bytes of the blob
FileOf(o) ==
    [size |-> The(o.row).cont_len, type |-> The(o.row).mime_typ,
     checksum |-> The(o.row).hash_md5, lastModified |-> The(o.row).last_mod,
     entityId |-> The(o.row).entityid, bytes |-> The(o.content)]

\* ManagedOpfs.exists(filePath), when nothing else runs: the row and its blob exist
ExistsFile(tab, bl, p) ==
    /\ RowsAt(tab, p) # {}
    /\ CatRead(tab, p).entityid \in DOMAIN bl

FOps == 1..Len(fops)
CanFault == faults < MaxFaults
Fault == faults' = faults + 1
NoFault == faults' = faults

\* Catalogdb.#query: throws "Not connected" when #conn is null, which it is
\* once disconnect() has run
Connected == cres.op # "disconnect"
\* a #query that does not test #conn
QueryAnyway(r) == r
Query(r) == IF Connected THEN r ELSE [tab |-> catalog, err |-> "NotConnected"]
\* a catalog call of a ManagedOpfs method: the engine answers, or the call
\* rejects (an engine error, or "Not connected" from #query)
DbOk == Connected /\ NoFault
DbFault == (CanFault /\ Fault) \/ (~Connected /\ NoFault)

\* a call arrives: the decorator's synchronous part runs
FsInvoke ==
    \E c \in FsCalls :
        /\ Len(fops) < MaxFsOps
        /\ IF Decorator(c.op) = "W" THEN InvokeW ELSE InvokeR
        /\ fops' = Append(fops, Fresh(c))
        /\ UNCHANGED <<cvars, blobs, nextId, opened, faults, written, streams>>

\* method.apply of a writer (writeFile, moveFile) up to its first await
FsBeginW(i) ==
    /\ BeginW(i)
    /\ fops' = [fops EXCEPT ![i] =
                  CASE fops[i].op = "open" ->
                         [@ EXCEPT !.pc = IF opened THEN "ret" ELSE "mopen"]
                    [] fops[i].op = "close" ->
                         [@ EXCEPT !.pc = IF opened THEN "mclose" ELSE "ret"]
                    [] OTHER ->
                         IF opened THEN [@ EXCEPT !.pc = FirstPc(fops[i].op)]
                         ELSE [@ EXCEPT !.pc = "ret", !.err = "NotOpen"]]
    /\ UNCHANGED <<cvars, blobs, nextId, opened, faults, written, streams>>

\* method.apply of a reader (readFile) up to its first await
FsBeginR(i) ==
    /\ BeginR(i)
    /\ fops' = [fops EXCEPT ![i] =
                  IF opened THEN [@ EXCEPT !.pc = FirstPc(fops[i].op)]
                  ELSE [@ EXCEPT !.pc = "ret", !.err = "NotOpen"]]
    /\ UNCHANGED <<cvars, blobs, nextId, opened, faults, written, streams>>

AtPc(i, op, pc) ==
    /\ i \in 1..Len(mops)
    /\ mops[i].st = "running"
    /\ fops[i].op = op
    /\ fops[i].pc = pc

\* writeFile: entityId = getEntityId(); getFileHandle(entityId, {create: true})
WriteAlloc(i) ==
    /\ AtPc(i, "write", "alloc")
    /\ nextId' = nextId + 1
    /\ \/ /\ NoFault
          /\ blobs' = CreateEntry(blobs, nextId)
          /\ fops' = [fops EXCEPT ![i].eid = nextId, ![i].pc = "stage"]
       \/ /\ CanFault /\ Fault
          /\ blobs' = blobs
          /\ fops' = [fops EXCEPT ![i].eid = nextId, ![i].pc = "ret",
                                  ![i].err = "IoError"]
    /\ UNCHANGED <<mvars, cvars, opened, written, streams>>

\* writeFile: fileHandle.createWritable() outside every try block; then
\* writer.write(view), whose failure leads to the catch block
WriteStage(i) ==
    /\ AtPc(i, "write", "stage")
    /\ \/ /\ NoFault
          /\ fops' = [fops EXCEPT ![i].pc = "close"]
       \/ /\ CanFault /\ Fault
          /\ fops' = [fops EXCEPT ![i].pc = "ret", ![i].err = "IoError"]
       \/ /\ CanFault /\ Fault
          /\ fops' = [fops EXCEPT ![i].pc = "wabort", ![i].err = "IoError"]
    /\ UNCHANGED <<mvars, cvars, blobs, nextId, opened, written, streams>>

\* writeFile, catch block of writer.write: writer.abort(), whose rejection is
\* logged; the error of writer.write is rethrown
WriteAbort(i) ==
    /\ AtPc(i, "write", "wabort")
    /\ NoFault \/ (CanFault /\ Fault)
    /\ fops' = [fops EXCEPT ![i].pc = "ret"]
    /\ UNCHANGED <<mvars, cvars, blobs, nextId, opened, written, streams>>

\* writeFile: writer.close()
WriteClose(i) ==
    /\ AtPc(i, "write", "close")
    /\ \/ /\ NoFault
          /\ blobs' = CommitEntry(blobs, fops[i].eid, fops[i].data)
          /\ fops' = [fops EXCEPT ![i].pc = "create"]
       \/ /\ CanFault /\ Fault
          /\ blobs' = blobs
          /\ fops' = [fops EXCEPT ![i].pc = "ret", ![i].err = "IoError"]
    /\ UNCHANGED <<mvars, cvars, nextId, opened, written, streams>>

\* writeFile: catalog.create(...)
WriteCreate(i) ==
    /\ AtPc(i, "write", "create")
    /\ \/ /\ DbOk
          /\ \E now \in Times :
                LET r == CatCreate(catalog, CreateInput(fops[i]), now)
                IN  /\ catalog' = r.tab
                    /\ fops' = [fops EXCEPT
                          ![i].pc = IF r.err = "none" THEN "ret" ELSE "cleanup",
                          ![i].err = r.err]
                    /\ written' = IF r.err = "none"
                                  THEN written \cup {[eid |-> fops[i].eid,
                                                      path |-> fops[i].path,
                                                      data |-> fops[i].data,
                                                      mime |-> fops[i].mime]}
                                  ELSE written
       \/ /\ DbFault
          /\ catalog' = catalog
          /\ written' = written
          /\ fops' = [fops EXCEPT ![i].pc = "cleanup", ![i].err = "DbError"]
    /\ UNCHANGED <<mvars, cres, blobs, nextId, opened, streams>>

\* writeFile: removeEntry(entityId) after a failed catalog.create; a failure
\* of removeEntry is logged; the catalog error is rethrown
\* the staged blob's removal raising instead of being logged
WriteCleanupShadow(i) ==
    /\ AtPc(i, "write", "cleanup")
    /\ \/ /\ NoFault
          /\ blobs' = RemoveEntry(blobs, fops[i].eid)
          /\ fops' = [fops EXCEPT ![i].pc = "ret"]
       \/ /\ CanFault /\ Fault
          /\ blobs' = blobs
          /\ fops' = [fops EXCEPT ![i].pc = "ret", ![i].err = "IoError"]
    /\ UNCHANGED <<mvars, cvars, nextId, opened, written, streams>>

WriteCleanup(i) ==
    /\ AtPc(i, "write", "cleanup")
    /\ \/ /\ NoFault
          /\ blobs' = RemoveEntry(blobs, fops[i].eid)
       \/ /\ CanFault /\ Fault
          /\ blobs' = blobs
    /\ fops' = [fops EXCEPT ![i].pc = "ret"]
    /\ UNCHANGED <<mvars, cvars, nextId, opened, written, streams>>

\* readFile: catalog.read({filePath})
ReadCatalog(i) ==
    /\ AtPc(i, "read", "read")
    /\ \/ /\ DbOk
          /\ fops' = IF RowsAt(catalog, fops[i].path) = {}
                     THEN [fops EXCEPT ![i].pc = "ret", ![i].err = "FileNotFound"]
                     ELSE [fops EXCEPT ![i].pc = "handle",
                                       ![i].row = Some(CatRead(catalog, fops[i].path))]
       \/ /\ DbFault
          /\ fops' = [fops EXCEPT ![i].pc = "ret", ![i].err = "DbError"]
    /\ UNCHANGED <<mvars, cvars, blobs, nextId, opened, written, streams>>

\* readFile: getFileHandle(entityId, {create: false}); NotFoundError leads to
\* the catch block, any other rejection is rethrown
ReadHandle(i) ==
    /\ AtPc(i, "read", "handle")
    /\ \/ /\ NoFault
          /\ fops' = IF The(fops[i].row).entityid \in DOMAIN blobs
                     THEN [fops EXCEPT ![i].pc = "getfile"]
                     ELSE [fops EXCEPT ![i].pc = "heal"]
       \/ /\ CanFault /\ Fault
          /\ fops' = [fops EXCEPT ![i].pc = "ret", ![i].err = "IoError"]
    /\ UNCHANGED <<mvars, cvars, blobs, nextId, opened, written, streams>>

\* readFile, catch block: catalog.delete({filePath}), whose rejection is
\* logged; then throw MopfsFileExistsError
ReadDelete(i) ==
    /\ AtPc(i, "read", "heal")
    /\ \/ /\ DbOk
          /\ catalog' = CatDelete(catalog, fops[i].path).tab
       \/ /\ DbFault
          /\ catalog' = catalog
    /\ fops' = [fops EXCEPT ![i].pc = "ret", ![i].err = "FileExists"]
    /\ UNCHANGED <<mvars, cres, blobs, nextId, opened, written, streams>>

\* readFile: fileHandle.getFile(), the bytes the returned File reads
ReadGetFile(i) ==
    /\ AtPc(i, "read", "getfile")
    /\ \/ /\ NoFault
          /\ The(fops[i].row).entityid \in DOMAIN blobs
          /\ fops' = [fops EXCEPT ![i].pc = "ret",
                         ![i].content = Some(blobs[The(fops[i].row).entityid])]
       \/ /\ NoFault
          /\ The(fops[i].row).entityid \notin DOMAIN blobs
          /\ fops' = [fops EXCEPT ![i].pc = "ret", ![i].err = "IoError"]
       \/ /\ CanFault /\ Fault
          /\ fops' = [fops EXCEPT ![i].pc = "ret", ![i].err = "IoError"]
    /\ UNCHANGED <<mvars, cvars, blobs, nextId, opened, written, streams>>

\* moveFile: catalog.move({srcFilePath, dstFilePath})
MoveCatalog(i) ==
    /\ AtPc(i, "move", "move")
    /\ \/ /\ DbOk
          /\ \E eager \in BOOLEAN :
                LET r == CatMove(catalog, fops[i].path, fops[i].dst, eager)
                IN  /\ catalog' = r.tab
                    /\ fops' = [fops EXCEPT ![i].pc = "ret", ![i].err = r.err]
       \/ /\ DbFault
          /\ catalog' = catalog
          /\ fops' = [fops EXCEPT ![i].pc = "ret", ![i].err = "DbError"]
    /\ UNCHANGED <<mvars, cres, blobs, nextId, opened, written, streams>>

\* ------------------------------------------------ copyFile
\* copyFile: catalog.readEntityId({filePath: srcFilePath})
CopyRead(i) ==
    /\ AtPc(i, "copy", "cread")
    /\ \/ /\ DbOk
          /\ fops' = IF RowsAt(catalog, fops[i].path) = {}
                     THEN [fops EXCEPT ![i].pc = "ret", ![i].err = "FileNotFound"]
                     ELSE [fops EXCEPT ![i].pc = "chandle",
                              ![i].old = CatRead(catalog, fops[i].path).entityid]
       \/ /\ DbFault
          /\ fops' = [fops EXCEPT ![i].pc = "ret", ![i].err = "DbError"]
    /\ UNCHANGED <<mvars, cvars, blobs, nextId, opened, written, streams>>

\* copyFile: getFileHandle(srcEntityId, {create: false}); NotFoundError leads
\* to the catch block, any other rejection is rethrown
CopyHandle(i) ==
    /\ AtPc(i, "copy", "chandle")
    /\ \/ /\ NoFault
          /\ fops' = IF fops[i].old \in DOMAIN blobs
                     THEN [fops EXCEPT ![i].pc = "cgetfile"]
                     ELSE [fops EXCEPT ![i].pc = "cheal"]
       \/ /\ CanFault /\ Fault
          /\ fops' = [fops EXCEPT ![i].pc = "ret", ![i].err = "IoError"]
    /\ UNCHANGED <<mvars, cvars, blobs, nextId, opened, written, streams>>

\* copyFile, catch block: catalog.delete({filePath: srcFilePath}), whose
\* rejection is logged; then throw MopfsFileExistsError
CopyDelete(i) ==
    /\ AtPc(i, "copy", "cheal")
    /\ \/ /\ DbOk
          /\ catalog' = CatDelete(catalog, fops[i].path).tab
       \/ /\ DbFault
          /\ catalog' = catalog
    /\ fops' = [fops EXCEPT ![i].pc = "ret", ![i].err = "FileExists"]
    /\ UNCHANGED <<mvars, cres, blobs, nextId, opened, written, streams>>

\* copyFile: srcHandle.getFile(); it rejects when the entry has been removed
\* since getFileHandle, and the rejection is not caught
CopyGetFile(i) ==
    /\ AtPc(i, "copy", "cgetfile")
    /\ \/ /\ NoFault
          /\ fops' = IF fops[i].old \in DOMAIN blobs
                     THEN [fops EXCEPT ![i].pc = "calloc"]
                     ELSE [fops EXCEPT ![i].pc = "ret", ![i].err = "IoError"]
       \/ /\ CanFault /\ Fault
          /\ fops' = [fops EXCEPT ![i].pc = "ret", ![i].err = "IoError"]
    /\ UNCHANGED <<mvars, cvars, blobs, nextId, opened, written, streams>>

\* copyFile: dstEntityId = getEntityId(); getFileHandle(dstEntityId, {create: true})
CopyAlloc(i) ==
    /\ AtPc(i, "copy", "calloc")
    /\ nextId' = nextId + 1
    /\ \/ /\ NoFault
          /\ blobs' = CreateEntry(blobs, nextId)
          /\ fops' = [fops EXCEPT ![i].eid = nextId, ![i].pc = "cstage"]
       \/ /\ CanFault /\ Fault
          /\ blobs' = blobs
          /\ fops' = [fops EXCEPT ![i].eid = nextId, ![i].pc = "ret",
                                  ![i].err = "IoError"]
    /\ UNCHANGED <<mvars, cvars, opened, written, streams>>

\* copyFile: dstHandle.createWritable() outside every try block; then
\* dstWriter.write(chunk) for every chunk of the source, where a failing
\* read of the source or a failing write leads to the catch block
CopyStage(i) ==
    /\ AtPc(i, "copy", "cstage")
    /\ \/ /\ NoFault
          /\ fops' = IF fops[i].old \in DOMAIN blobs
                     THEN [fops EXCEPT ![i].pc = "cclose",
                                       ![i].content = Some(blobs[fops[i].old])]
                     ELSE [fops EXCEPT ![i].pc = "cabort", ![i].err = "IoError"]
       \/ /\ CanFault /\ Fault
          /\ fops' = [fops EXCEPT ![i].pc = "ret", ![i].err = "IoError"]
       \/ /\ CanFault /\ Fault
          /\ fops' = [fops EXCEPT ![i].pc = "cabort", ![i].err = "IoError"]
    /\ UNCHANGED <<mvars, cvars, blobs, nextId, opened, written, streams>>

\* copyFile, catch block of the copy loop: dstWriter.abort(), whose rejection
\* is logged; the error of the loop is rethrown
CopyAbort(i) ==
    /\ AtPc(i, "copy", "cabort")
    /\ NoFault \/ (CanFault /\ Fault)
    /\ fops' = [fops EXCEPT ![i].pc = "ret"]
    /\ UNCHANGED <<mvars, cvars, blobs, nextId, opened, written, streams>>

\* copyFile: dstWriter.close()
CopyClose(i) ==
    /\ AtPc(i, "copy", "cclose")
    /\ \/ /\ NoFault
          /\ blobs' = CommitEntry(blobs, fops[i].eid, The(fops[i].content))
          /\ fops' = [fops EXCEPT ![i].pc = "ccopy"]
       \/ /\ CanFault /\ Fault
          /\ blobs' = blobs
          /\ fops' = [fops EXCEPT ![i].pc = "ret", ![i].err = "IoError"]
    /\ UNCHANGED <<mvars, cvars, nextId, opened, written, streams>>

\* copyFile: catalog.copy({srcFilePath, dstFilePath, dstEntityId})
CopyCatalog(i) ==
    /\ AtPc(i, "copy", "ccopy")
    /\ \/ /\ DbOk
          /\ LET r == CatCopy(catalog, fops[i].path, fops[i].dst, fops[i].eid)
             IN  /\ catalog' = r.tab
                 /\ fops' = [fops EXCEPT
                       ![i].pc = IF r.err = "none" THEN "ret" ELSE "ccleanup",
                       ![i].err = r.err]
       \/ /\ DbFault
          /\ catalog' = catalog
          /\ fops' = [fops EXCEPT ![i].pc = "ccleanup", ![i].err = "DbError"]
    /\ UNCHANGED <<mvars, cres, blobs, nextId, opened, written, streams>>

\* copyFile: removeEntry(dstEntityId) after a failed catalog.copy; a failure
\* of removeEntry is logged; the catalog error is rethrown
CopyCleanup(i) ==
    /\ AtPc(i, "copy", "ccleanup")
    /\ \/ /\ NoFault
          /\ blobs' = RemoveEntry(blobs, fops[i].eid)
       \/ /\ CanFault /\ Fault
          /\ blobs' = blobs
    /\ fops' = [fops EXCEPT ![i].pc = "ret"]
    /\ UNCHANGED <<mvars, cvars, nextId, opened, written, streams>>

\* ------------------------------------------------ removeFile
\* removeFile: catalog.readEntityId({filePath}) inside the try block
RemoveRead(i) ==
    /\ AtPc(i, "remove", "rread")
    /\ \/ /\ DbOk
          /\ fops' = IF RowsAt(catalog, fops[i].path) = {}
                     THEN [fops EXCEPT ![i].pc = "rcatch", ![i].err = "FileNotFound"]
                     ELSE [fops EXCEPT ![i].pc = "rentry",
                              ![i].old = CatRead(catalog, fops[i].path).entityid]
       \/ /\ DbFault
          /\ fops' = [fops EXCEPT ![i].pc = "rcatch", ![i].err = "DbError"]
    /\ UNCHANGED <<mvars, cvars, blobs, nextId, opened, written, streams>>

\* removeFile: removeEntry(entityId) inside the try block; a NotFoundError
\* will be rethrown as MopfsFileExistsError
RemoveBlobRethrow(i) ==
    /\ AtPc(i, "remove", "rentry")
    /\ \/ /\ NoFault
          /\ IF fops[i].old \in DOMAIN blobs
             THEN /\ blobs' = RemoveEntry(blobs, fops[i].old)
                  /\ fops' = [fops EXCEPT ![i].pc = "rdelete"]
             ELSE /\ blobs' = blobs
                  /\ fops' = [fops EXCEPT ![i].pc = "rcatch", ![i].err = "IoError"]
       \/ /\ CanFault /\ Fault
          /\ blobs' = blobs
          /\ fops' = [fops EXCEPT ![i].pc = "rcatch", ![i].err = "IoError"]
    /\ UNCHANGED <<mvars, cvars, nextId, opened, written, streams>>
RemoveBlob(i) ==
    /\ AtPc(i, "remove", "rentry")
    /\ \/ /\ NoFault
          /\ IF fops[i].old \in DOMAIN blobs
             THEN /\ blobs' = RemoveEntry(blobs, fops[i].old)
                  /\ fops' = [fops EXCEPT ![i].pc = "rdelete"]
             ELSE /\ blobs' = blobs
                  /\ fops' = [fops EXCEPT ![i].pc = "rcatch", ![i].err = "FileExists"]
       \/ /\ CanFault /\ Fault
          /\ blobs' = blobs
          /\ fops' = [fops EXCEPT ![i].pc = "rcatch", ![i].err = "IoError"]
    /\ UNCHANGED <<mvars, cvars, nextId, opened, written, streams>>

\* removeFile, catch block: catalog.delete({filePath}), its failure is logged;
\* then the error of the try block is thrown
RemoveCatch(i) ==
    /\ AtPc(i, "remove", "rcatch")
    /\ \/ /\ DbOk
          /\ catalog' = CatDelete(catalog, fops[i].path).tab
       \/ /\ DbFault
          /\ catalog' = catalog
    /\ fops' = [fops EXCEPT ![i].pc = "ret"]
    /\ UNCHANGED <<mvars, cres, blobs, nextId, opened, written, streams>>

\* removeFile, after the try block: catalog.delete({filePath}), its failure is
\* logged; the method returns
RemoveDelete(i) ==
    /\ AtPc(i, "remove", "rdelete")
    /\ \/ /\ DbOk
          /\ catalog' = CatDelete(catalog, fops[i].path).tab
       \/ /\ DbFault
          /\ catalog' = catalog
    /\ fops' = [fops EXCEPT ![i].pc = "ret"]
    /\ UNCHANGED <<mvars, cres, blobs, nextId, opened, written, streams>>

\* ------------------------------------------------ exists(filePath)
\* exists: catalog.readEntityId({filePath}); MopfsFileNotFoundError -> false
ExistsRead(i) ==
    /\ AtPc(i, "exists", "eread")
    /\ \/ /\ DbOk
          /\ fops' = IF RowsAt(catalog, fops[i].path) = {}
                     THEN [fops EXCEPT ![i].pc = "ret", ![i].ret = "false"]
                     ELSE [fops EXCEPT ![i].pc = "eprobe",
                              ![i].old = CatRead(catalog, fops[i].path).entityid]
       \/ /\ DbFault
          /\ fops' = [fops EXCEPT ![i].pc = "ret", ![i].err = "DbError"]
    /\ UNCHANGED <<mvars, cvars, blobs, nextId, opened, written, streams>>

\* exists: getFileHandle(entityId): true when it resolves; NotFoundError
\* leads to the catch block, any other rejection is rethrown
ExistsProbe(i) ==
    /\ AtPc(i, "exists", "eprobe")
    /\ \/ /\ NoFault
          /\ fops' = IF fops[i].old \in DOMAIN blobs
                     THEN [fops EXCEPT ![i].pc = "ret", ![i].ret = "true"]
                     ELSE [fops EXCEPT ![i].pc = "eheal"]
       \/ /\ CanFault /\ Fault
          /\ fops' = [fops EXCEPT ![i].pc = "ret", ![i].err = "IoError"]
    /\ UNCHANGED <<mvars, cvars, blobs, nextId, opened, written, streams>>

\* exists, catch block: catalog.delete({filePath}), whose rejection is
\* logged; then return false
ExistsDelete(i) ==
    /\ AtPc(i, "exists", "eheal")
    /\ \/ /\ DbOk
          /\ catalog' = CatDelete(catalog, fops[i].path).tab
       \/ /\ DbFault
          /\ catalog' = catalog
    /\ fops' = [fops EXCEPT ![i].pc = "ret", ![i].ret = "false"]
    /\ UNCHANGED <<mvars, cres, blobs, nextId, opened, written, streams>>

\* ------------------------------------------------ overwriteFile
\* the arguments overwriteFile passes to catalog.update
MetaUpdate(o) ==
    [checksum |-> None, fileSize |-> None, metadata |-> Undef,
     mimeType |-> o.mime, description |-> Undef,
     newEntityId |-> None, oldEntityId |-> None]
DataUpdateUnguarded(o) ==
    [checksum |-> Some(Md5(o.data)), fileSize |-> Some(Len(o.data)),
     metadata |-> Undef, mimeType |-> o.mime, description |-> Undef,
     newEntityId |-> Some(o.eid), oldEntityId |-> None]
DataUpdate(o) ==
    [checksum |-> Some(Md5(o.data)), fileSize |-> Some(Len(o.data)),
     metadata |-> Undef, mimeType |-> o.mime, description |-> Undef,
     newEntityId |-> Some(o.eid), oldEntityId |-> Some(o.old)]

\* an overwriteFile that calls catalog.update whenever no data is given
OverwriteReadTouch(i) ==
    /\ AtPc(i, "overwrite", "oread")
    /\ \/ /\ ~fops[i].view
          /\ DbOk
          /\ \E now \in Times :
                LET r == CatUpdate(catalog, fops[i].path, MetaUpdate(fops[i]), now)
                IN  /\ catalog' = r.tab
                    /\ fops' = [fops EXCEPT ![i].pc = "ret", ![i].err = r.err]
       \/ /\ fops[i].view
          /\ DbOk
          /\ catalog' = catalog
          /\ fops' = IF RowsAt(catalog, fops[i].path) = {}
                     THEN [fops EXCEPT ![i].pc = "ret", ![i].err = "FileNotFound"]
                     ELSE [fops EXCEPT ![i].pc = "oalloc",
                              ![i].old = CatRead(catalog, fops[i].path).entityid]
       \/ /\ fops[i].view \/ fops[i].mime # Undef
          /\ DbFault
          /\ catalog' = catalog
          /\ fops' = [fops EXCEPT ![i].pc = "ret", ![i].err = "DbError"]
    /\ UNCHANGED <<mvars, cres, blobs, nextId, opened, written, streams>>

\* overwriteFile up to the end of its first await: nothing to do when every
\* option is undefined; catalog.update of the side data when there is no
\* data; otherwise catalog.readEntityId({filePath})
OverwriteRead(i) ==
    /\ AtPc(i, "overwrite", "oread")
    /\ \/ /\ ~fops[i].view /\ fops[i].mime = Undef
          /\ NoFault
          /\ catalog' = catalog
          /\ fops' = [fops EXCEPT ![i].pc = "ret"]
       \/ /\ ~fops[i].view /\ fops[i].mime # Undef
          /\ DbOk
          /\ \E now \in Times :
                LET r == CatUpdate(catalog, fops[i].path, MetaUpdate(fops[i]), now)
                IN  /\ catalog' = r.tab
                    /\ fops' = [fops EXCEPT ![i].pc = "ret", ![i].err = r.err]
       \/ /\ fops[i].view
          /\ DbOk
          /\ catalog' = catalog
          /\ fops' = IF RowsAt(catalog, fops[i].path) = {}
                     THEN [fops EXCEPT ![i].pc = "ret", ![i].err = "FileNotFound"]
                     ELSE [fops EXCEPT ![i].pc = "oalloc",
                              ![i].old = CatRead(catalog, fops[i].path).entityid]
       \/ /\ fops[i].view \/ fops[i].mime # Undef
          /\ DbFault
          /\ catalog' = catalog
          /\ fops' = [fops EXCEPT ![i].pc = "ret", ![i].err = "DbError"]
    /\ UNCHANGED <<mvars, cres, blobs, nextId, opened, written, streams>>

\* overwriteFile: newEntityId = getEntityId(); hash.digest(view);
\* getFileHandle(newEntityId, {create: true})
OverwriteAlloc(i) ==
    /\ AtPc(i, "overwrite", "oalloc")
    /\ nextId' = nextId + 1
    /\ \/ /\ NoFault
          /\ blobs' = CreateEntry(blobs, nextId)
          /\ fops' = [fops EXCEPT ![i].eid = nextId, ![i].pc = "ostage"]
       \/ /\ CanFault /\ Fault
          /\ blobs' = blobs
          /\ fops' = [fops EXCEPT ![i].eid = nextId, ![i].pc = "ret",
                                  ![i].err = "IoError"]
    /\ UNCHANGED <<mvars, cvars, opened, written, streams>>

\* overwriteFile: handle.createWritable() outside every try block; then
\* writer.write(view), whose failure leads to the catch block
OverwriteStage(i) ==
    /\ AtPc(i, "overwrite", "ostage")
    /\ \/ /\ NoFault
          /\ fops' = [fops EXCEPT ![i].pc = "oclose"]
       \/ /\ CanFault /\ Fault
          /\ fops' = [fops EXCEPT ![i].pc = "ret", ![i].err = "IoError"]
       \/ /\ CanFault /\ Fault
          /\ fops' = [fops EXCEPT ![i].pc = "oabort", ![i].err = "IoError"]
    /\ UNCHANGED <<mvars, cvars, blobs, nextId, opened, written, streams>>

\* overwriteFile, catch block of writer.write: writer.abort(ex), whose
\* rejection is logged; removeEntry(newEntityId) follows
OverwriteAbort(i) ==
    /\ AtPc(i, "overwrite", "oabort")
    /\ NoFault \/ (CanFault /\ Fault)
    /\ fops' = [fops EXCEPT ![i].pc = "ocleanup"]
    /\ UNCHANGED <<mvars, cvars, blobs, nextId, opened, written, streams>>

\* overwriteFile: writer.close()
OverwriteClose(i) ==
    /\ AtPc(i, "overwrite", "oclose")
    /\ \/ /\ NoFault
          /\ blobs' = CommitEntry(blobs, fops[i].eid, fops[i].data)
          /\ fops' = [fops EXCEPT ![i].pc = "oupdate"]
       \/ /\ CanFault /\ Fault
          /\ blobs' = blobs
          /\ fops' = [fops EXCEPT ![i].pc = "ocleanup", ![i].err = "IoError"]
    /\ UNCHANGED <<mvars, cvars, nextId, opened, written, streams>>

\* overwriteFile: catalog.update({..., newEntityId, oldEntityId})
OverwriteUpdate(i) ==
    /\ AtPc(i, "overwrite", "oupdate")
    /\ \/ /\ DbOk
          /\ \E now \in Times :
                LET r == CatUpdate(catalog, fops[i].path, DataUpdate(fops[i]), now)
                IN  /\ catalog' = r.tab
                    /\ fops' = [fops EXCEPT
                          ![i].pc = IF r.err = "none" THEN "oremold" ELSE "ocleanup",
                          ![i].err = r.err]
       \/ /\ DbFault
          /\ catalog' = catalog
          /\ fops' = [fops EXCEPT ![i].pc = "ocleanup", ![i].err = "DbError"]
    /\ UNCHANGED <<mvars, cres, blobs, nextId, opened, written, streams>>

\* a cleanup that removes the entity the row names
OverwriteCleanupOld(i) ==
    /\ AtPc(i, "overwrite", "ocleanup")
    /\ \/ /\ NoFault
          /\ blobs' = RemoveEntry(blobs, fops[i].old)
       \/ /\ CanFault /\ Fault
          /\ blobs' = blobs
    /\ fops' = [fops EXCEPT ![i].pc = "ret"]
    /\ UNCHANGED <<mvars, cvars, nextId, opened, written, streams>>

\* overwriteFile: removeEntry(newEntityId) after a failed write, close or
\* update; its failure is logged; the first error is rethrown
OverwriteCleanup(i) ==
    /\ AtPc(i, "overwrite", "ocleanup")
    /\ \/ /\ NoFault
          /\ blobs' = RemoveEntry(blobs, fops[i].eid)
       \/ /\ CanFault /\ Fault
          /\ blobs' = blobs
    /\ fops' = [fops EXCEPT ![i].pc = "ret"]
    /\ UNCHANGED <<mvars, cvars, nextId, opened, written, streams>>

\* overwriteFile: removeEntry(oldEntityId) after the commit; its failure is logged
OverwriteRemoveOld(i) ==
    /\ AtPc(i, "overwrite", "oremold")
    /\ \/ /\ NoFault
          /\ blobs' = RemoveEntry(blobs, fops[i].old)
       \/ /\ CanFault /\ Fault
          /\ blobs' = blobs
    /\ fops' = [fops EXCEPT ![i].pc = "ret"]
    /\ UNCHANGED <<mvars, cvars, nextId, opened, written, streams>>

\* ------------------------------------------------ createWritable
\* a stream as its constructor leaves it
NewStream(kind, o, mimeType) ==
    [kind |-> kind, path |-> o.path, eid |-> o.eid, old |-> o.old,
     mime |-> mimeType,
     desc |-> IF kind = "w" THEN Null ELSE Undef,
     meta |-> IF kind = "w" THEN Null ELSE Undef,
     upd |-> FALSE, size |-> 0, hashed |-> <<>>,
     staged |-> <<>>, closed |-> FALSE, writes |-> 0, aborted |-> FALSE,
     pc |-> "idle", err |-> "none", res |-> "none"]

\* createWritable: entityId = getEntityId(); getFileHandle(entityId, {create: true})
CreateWritableAlloc(i) ==
    /\ AtPc(i, "createWritable", "cwalloc")
    /\ nextId' = nextId + 1
    /\ \/ /\ NoFault
          /\ blobs' = CreateEntry(blobs, nextId)
          /\ fops' = [fops EXCEPT ![i].eid = nextId, ![i].pc = "cwopen"]
       \/ /\ CanFault /\ Fault
          /\ blobs' = blobs
          /\ fops' = [fops EXCEPT ![i].eid = nextId, ![i].pc = "ret",
                                  ![i].err = "IoError"]
    /\ UNCHANGED <<mvars, cvars, opened, written, streams>>

\* createWritable: fileHandle.createWritable(); new WritableFileStream({...})
\* with mimeType = getMimeType(filePath.basename) by default
CreateWritableOpen(i) ==
    /\ AtPc(i, "createWritable", "cwopen")
    /\ \/ /\ NoFault
          /\ streams' = Append(streams,
                NewStream("w", fops[i],
                          IF fops[i].mime = Undef
                          THEN GetMimeType(Basename(fops[i].path))
                          ELSE fops[i].mime))
          /\ fops' = [fops EXCEPT ![i].pc = "ret"]
       \/ /\ CanFault /\ Fault
          /\ streams' = streams
          /\ fops' = [fops EXCEPT ![i].pc = "cwcleanup", ![i].err = "IoError"]
    /\ UNCHANGED <<mvars, cvars, blobs, nextId, opened, written>>

\* createWritable: removeEntry(entityId) after a failed createWritable()
CreateWritableCleanup(i) ==
    /\ AtPc(i, "createWritable", "cwcleanup")
    /\ \/ /\ NoFault
          /\ blobs' = RemoveEntry(blobs, fops[i].eid)
       \/ /\ CanFault /\ Fault
          /\ blobs' = blobs
    /\ fops' = [fops EXCEPT ![i].pc = "ret"]
    /\ UNCHANGED <<mvars, cvars, nextId, opened, written, streams>>

\* ------------------------------------------------ createOverwritable
\* createOverwritable: catalog.read({filePath})
CreateOverwritableRead(i) ==
    /\ AtPc(i, "createOverwritable", "coread")
    /\ \/ /\ DbOk
          /\ fops' = IF RowsAt(catalog, fops[i].path) = {}
                     THEN [fops EXCEPT ![i].pc = "ret", ![i].err = "FileNotFound"]
                     ELSE [fops EXCEPT ![i].pc = "coalloc",
                              ![i].row = Some(CatRead(catalog, fops[i].path)),
                              ![i].old = CatRead(catalog, fops[i].path).entityid]
       \/ /\ DbFault
          /\ fops' = [fops EXCEPT ![i].pc = "ret", ![i].err = "DbError"]
    /\ UNCHANGED <<mvars, cvars, blobs, nextId, opened, written, streams>>

\* createOverwritable: hash.create(); newEntityId = getEntityId();
\* getFileHandle(newEntityId, {create: true})
CreateOverwritableAlloc(i) ==
    /\ AtPc(i, "createOverwritable", "coalloc")
    /\ nextId' = nextId + 1
    /\ \/ /\ NoFault
          /\ blobs' = CreateEntry(blobs, nextId)
          /\ fops' = [fops EXCEPT ![i].eid = nextId, ![i].pc = "coopen"]
       \/ /\ CanFault /\ Fault
          /\ blobs' = blobs
          /\ fops' = [fops EXCEPT ![i].eid = nextId, ![i].pc = "ret",
                                  ![i].err = "IoError"]
    /\ UNCHANGED <<mvars, cvars, opened, written, streams>>

\* createOverwritable: fileHandle.createWritable(); new OverwritableFileStream({...})
\* with mimeType: mimeType ?? defaultMimeType
CreateOverwritableOpen(i) ==
    /\ AtPc(i, "createOverwritable", "coopen")
    /\ \/ /\ NoFault
          /\ streams' = Append(streams,
                NewStream("o", fops[i],
                          IF fops[i].mime = Undef
                          THEN The(fops[i].row).mime_typ
                          ELSE fops[i].mime))
          /\ fops' = [fops EXCEPT ![i].pc = "ret"]
       \/ /\ CanFault /\ Fault
          /\ streams' = streams
          /\ fops' = [fops EXCEPT ![i].pc = "cocleanup", ![i].err = "IoError"]
    /\ UNCHANGED <<mvars, cvars, blobs, nextId, opened, written>>

\* createOverwritable: removeEntry(newEntityId) after a failed createWritable()
CreateOverwritableCleanup(i) ==
    /\ AtPc(i, "createOverwritable", "cocleanup")
    /\ \/ /\ NoFault
          /\ blobs' = RemoveEntry(blobs, fops[i].eid)
       \/ /\ CanFault /\ Fault
          /\ blobs' = blobs
    /\ fops' = [fops EXCEPT ![i].pc = "ret"]
    /\ UNCHANGED <<mvars, cvars, nextId, opened, written, streams>>

\* ------------------------------------------------ stream methods
\* The methods of one stream are called one at a time: write(chunk) and
\* close() on an idle stream, while the manager is open.
Chunks == {<<7>>}
Streams == 1..Len(streams)

\* a stream whose properties are assigned right after it was created
Unused(s) ==
    /\ s \in Streams
    /\ streams[s].pc = "idle" /\ streams[s].res = "none"
    /\ streams[s].writes = 0
    /\ ~streams[s].closed /\ ~streams[s].aborted

\* A method of stream s may start: the manager is open and no earlier call on
\* the stream is in flight. This is what the stream's @mutex gives a caller
\* that awaits each call before making the next one, which is how the
\* workloads built from these actions call a stream. Calls made on one stream
\* without awaiting go through the stream's own queue in OwnInvoke ..
\* OwnFinally, where the bodies can overlap.
Idle(s) ==
    /\ s \in Streams
    /\ opened
    /\ streams[s].pc = "idle"

\* write(chunk) on either stream class: writer.write(view), then the size and
\* the hash advance; OverwritableFileStream sets #updateEntityId before
StreamWrite(s) ==
    /\ Idle(s)
    /\ ~streams[s].closed
    /\ ~streams[s].aborted
    /\ streams[s].writes < MaxWrites
    /\ \E chunk \in Chunks :
          \/ /\ NoFault
             /\ streams' = [streams EXCEPT
                   ![s].upd = (@ \/ streams[s].kind = "o"),
                   ![s].writes = @ + 1,
                   ![s].staged = @ \o chunk,
                   ![s].size = @ + Len(chunk),
                   ![s].hashed = @ \o chunk,
                   ![s].res = "ok"]
          \/ /\ CanFault /\ Fault
             /\ streams' = [streams EXCEPT
                   ![s].upd = (@ \/ streams[s].kind = "o"),
                   ![s].writes = @ + 1,
                   ![s].aborted = TRUE,
                   ![s].res = "IoError"]
    /\ UNCHANGED <<mvars, cvars, blobs, nextId, opened, fops, written>>

\* a close() that does not look at #closed and runs its catch block again
StreamClosedRerun(s) ==
    /\ Idle(s)
    /\ streams[s].closed
    /\ streams[s].res # "Closed"
    /\ streams' = [streams EXCEPT ![s].pc = "cleanup", ![s].err = "Closed"]
    /\ UNCHANGED <<mvars, cvars, blobs, nextId, opened, fops, faults, written>>

\* close() on a stream whose #closed is set: MopfsError "stream closed"
StreamClosed(s) ==
    /\ Idle(s)
    /\ streams[s].closed
    /\ streams[s].res # "Closed"
    /\ streams' = [streams EXCEPT ![s].res = "Closed"]
    /\ UNCHANGED <<mvars, cvars, blobs, nextId, opened, fops, faults, written>>

\* arguments that ignore what the stream accumulated
StreamCreateInputEmpty(st) ==
    [filePath |-> st.path, entityId |-> st.eid, checksum |-> Md5(<<>>),
     fileSize |-> 0, mimeType |-> st.mime,
     description |-> st.desc, metadata |-> st.meta]

\* the arguments WritableFileStream.close passes to catalog.create
StreamCreateInput(st) ==
    [filePath |-> st.path, entityId |-> st.eid, checksum |-> Md5(st.hashed),
     fileSize |-> st.size, mimeType |-> st.mime,
     description |-> st.desc, metadata |-> st.meta]

\* the arguments OverwritableFileStream.close passes to catalog.update
StreamDataUpdate(st) ==
    [checksum |-> Some(Md5(st.hashed)), fileSize |-> Some(st.size),
     metadata |-> st.meta, mimeType |-> st.mime, description |-> st.desc,
     newEntityId |-> Some(st.eid), oldEntityId |-> Some(st.old)]
\* side-data arguments that also name the staged entity
StreamMetaUpdateRotate(st) ==
    [checksum |-> None, fileSize |-> None,
     metadata |-> st.meta, mimeType |-> st.mime, description |-> st.desc,
     newEntityId |-> Some(st.eid), oldEntityId |-> None]
StreamMetaUpdate(st) ==
    [checksum |-> None, fileSize |-> None,
     metadata |-> st.meta, mimeType |-> st.mime, description |-> st.desc,
     newEntityId |-> None, oldEntityId |-> None]

\* set fileType(value) of either stream class: #type = v.parse(MimeType, value)
StreamSetType(s) ==
    /\ s \in Streams
    /\ streams[s].mime # "text/css"
    /\ streams' = [streams EXCEPT ![s].mime = "text/css"]
    /\ UNCHANGED <<mvars, cvars, blobs, nextId, opened, fops, faults, written>>

\* an assignment to the public field fileDescription of either stream class
StreamSetDescription(s) ==
    /\ s \in Streams
    /\ streams[s].desc # "foo"
    /\ streams' = [streams EXCEPT ![s].desc = "foo"]
    /\ UNCHANGED <<mvars, cvars, blobs, nextId, opened, fops, faults, written>>

\* an assignment to the public field fileMetadata of either stream class
StreamSetMetadata(s) ==
    /\ s \in Streams
    /\ streams[s].meta # "m"
    /\ streams' = [streams EXCEPT ![s].meta = "m"]
    /\ UNCHANGED <<mvars, cvars, blobs, nextId, opened, fops, faults, written>>

\* close(), both classes: writer.close() (for OverwritableFileStream when
\* #updateEntityId is set)
StreamCloseWriter(s) ==
    /\ Idle(s)
    /\ ~streams[s].closed
    /\ ~streams[s].aborted
    /\ streams[s].kind = "w" \/ streams[s].upd
    /\ \/ /\ NoFault
          /\ blobs' = CommitEntry(blobs, streams[s].eid, streams[s].staged)
          /\ streams' = [streams EXCEPT ![s].pc = "commit", ![s].res = "none"]
       \/ /\ CanFault /\ Fault
          /\ blobs' = blobs
          /\ streams' = [streams EXCEPT ![s].pc = "cleanup", ![s].err = "IoError",
                                        ![s].res = "none"]
    /\ UNCHANGED <<mvars, cvars, nextId, opened, fops, written>>

\* WritableFileStream.close: catalog.create({...}); finally #closed = true
WritableCreate(s) ==
    /\ s \in Streams
    /\ streams[s].kind = "w" /\ streams[s].pc = "commit"
    /\ \/ /\ NoFault
          /\ \E now \in Times :
                LET r == Query(CatCreate(catalog, StreamCreateInput(streams[s]), now))
                IN  /\ catalog' = r.tab
                    /\ streams' = IF r.err = "none"
                          THEN [streams EXCEPT ![s].pc = "idle", ![s].closed = TRUE,
                                               ![s].res = "ok"]
                          ELSE [streams EXCEPT ![s].pc = "cleanup", ![s].err = r.err]
       \/ /\ CanFault /\ Fault
          /\ catalog' = catalog
          /\ streams' = [streams EXCEPT ![s].pc = "cleanup", ![s].err = "DbError"]
    /\ UNCHANGED <<mvars, cres, blobs, nextId, opened, fops, written>>

\* OverwritableFileStream.close: catalog.update({..., newEntityId, oldEntityId});
\* finally #closed = true
OverwritableUpdate(s) ==
    /\ s \in Streams
    /\ streams[s].kind = "o" /\ streams[s].pc = "commit"
    /\ \/ /\ NoFault
          /\ \E now \in Times :
                LET r == Query(CatUpdate(catalog, streams[s].path,
                                         StreamDataUpdate(streams[s]), now))
                IN  /\ catalog' = r.tab
                    /\ streams' = IF r.err = "none"
                          THEN [streams EXCEPT ![s].pc = "remold", ![s].closed = TRUE]
                          ELSE [streams EXCEPT ![s].pc = "cleanup", ![s].err = r.err]
       \/ /\ CanFault /\ Fault
          /\ catalog' = catalog
          /\ streams' = [streams EXCEPT ![s].pc = "cleanup", ![s].err = "DbError"]
    /\ UNCHANGED <<mvars, cres, blobs, nextId, opened, fops, written>>

\* close(), both classes, catch block: removeEntry of the staged entity (its
\* failure is logged), rethrow; finally #closed = true
\* close() rethrowing without removing the staged entity
StreamCleanupKeep(s) ==
    /\ s \in Streams
    /\ streams[s].pc = "cleanup"
    /\ blobs' = blobs
    /\ faults' = faults
    /\ streams' = [streams EXCEPT ![s].pc = "idle", ![s].closed = TRUE,
                                  ![s].res = streams[s].err]
    /\ UNCHANGED <<mvars, cvars, nextId, opened, fops, written>>

StreamCleanup(s) ==
    /\ s \in Streams
    /\ streams[s].pc = "cleanup"
    /\ \/ /\ NoFault
          /\ blobs' = RemoveEntry(blobs, streams[s].eid)
       \/ /\ CanFault /\ Fault
          /\ blobs' = blobs
    /\ streams' = [streams EXCEPT ![s].pc = "idle", ![s].closed = TRUE,
                                  ![s].res = streams[s].err]
    /\ UNCHANGED <<mvars, cvars, nextId, opened, fops, written>>

\* OverwritableFileStream.close: removeEntry(#oldEntityId) after the commit;
\* its failure is logged
OverwritableRemoveOld(s) ==
    /\ s \in Streams
    /\ streams[s].pc = "remold"
    /\ \/ /\ NoFault
          /\ blobs' = RemoveEntry(blobs, streams[s].old)
       \/ /\ CanFault /\ Fault
          /\ blobs' = blobs
    /\ streams' = [streams EXCEPT ![s].pc = "idle", ![s].res = "ok"]
    /\ UNCHANGED <<mvars, cvars, nextId, opened, fops, written>>

\* OverwritableFileStream.close without any write: catalog.update of the side
\* data only; finally #closed = true
OverwritableMeta(s) ==
    /\ Idle(s)
    /\ ~streams[s].closed
    /\ streams[s].kind = "o" /\ ~streams[s].upd
    /\ \/ /\ NoFault
          /\ \E now \in Times :
                LET r == Query(CatUpdate(catalog, streams[s].path,
                                         StreamMetaUpdate(streams[s]), now))
                IN  /\ catalog' = r.tab
                    /\ streams' = [streams EXCEPT ![s].pc = "unstage",
                                      ![s].closed = TRUE, ![s].err = r.err,
                                      ![s].res = "none"]
       \/ /\ CanFault /\ Fault
          /\ catalog' = catalog
          /\ streams' = [streams EXCEPT ![s].pc = "unstage", ![s].closed = TRUE,
                                        ![s].err = "DbError", ![s].res = "none"]
    /\ UNCHANGED <<mvars, cres, blobs, nextId, opened, fops, written>>

\* OverwritableFileStream.close without any write, finally block:
\* writer.abort(); removeEntry(#newEntityId); a failure is logged
OverwritableUnstage(s) ==
    /\ s \in Streams
    /\ streams[s].pc = "unstage"
    /\ \/ /\ NoFault
          /\ blobs' = RemoveEntry(blobs, streams[s].eid)
       \/ /\ CanFault /\ Fault
          /\ blobs' = blobs
    /\ streams' = [streams EXCEPT ![s].pc = "idle",
                      ![s].res = IF streams[s].err = "none" THEN "ok"
                                 ELSE streams[s].err]
    /\ UNCHANGED <<mvars, cvars, nextId, opened, fops, written>>

\* ------------------------------------------------ open / close, abort
\* ManagedOpfs.open (which returns at once when #bucket is set):
\* catalog.connect(), outside the try block. A rejected connect() has either
\* not reached #conn = ... or has left #conn set.
ManagerConnect(i) ==
    /\ AtPc(i, "open", "mopen")
    /\ \/ /\ NoFault
          /\ cres' = [op |-> "connect", err |-> "none"]
          /\ fops' = [fops EXCEPT ![i].pc = "mdirs"]
       \/ /\ CanFault /\ Fault
          /\ cres' \in {cres, [op |-> "connect", err |-> "DbError"]}
          /\ fops' = [fops EXCEPT ![i].pc = "ret", ![i].err = "DbError"]
    /\ UNCHANGED <<mvars, catalog, blobs, nextId, opened, written, streams>>

\* ManagedOpfs.open, try block: getDirectory(), three getDirectoryHandle(),
\* then #bucket = {main}; a rejection leads to the catch block
ManagerDirs(i) ==
    /\ AtPc(i, "open", "mdirs")
    /\ \/ /\ NoFault
          /\ opened' = TRUE
          /\ fops' = [fops EXCEPT ![i].pc = "ret"]
       \/ /\ CanFault /\ Fault
          /\ opened' = opened
          /\ fops' = [fops EXCEPT ![i].pc = "mundo", ![i].err = "IoError"]
    /\ UNCHANGED <<mvars, cvars, blobs, nextId, written, streams>>

\* ManagedOpfs.open, catch block: catalog.disconnect(), whose rejection is
\* logged; the error of the try block is rethrown
ManagerUndo(i) ==
    /\ AtPc(i, "open", "mundo")
    /\ \/ /\ NoFault
          /\ cres' = [op |-> "disconnect", err |-> "none"]
       \/ /\ CanFault /\ Fault
          /\ cres' \in {cres, [op |-> "disconnect", err |-> "DbError"]}
    /\ fops' = [fops EXCEPT ![i].pc = "ret"]
    /\ UNCHANGED <<mvars, catalog, blobs, nextId, opened, written, streams>>

\* ManagedOpfs.close (which returns at once when #bucket is null):
\* catalog.disconnect(). A rejected disconnect() has failed before
\* #conn = null (CHECKPOINT, conn.close) or after it (db.terminate), and
\* #bucket stays set.
ManagerDisconnect(i) ==
    /\ AtPc(i, "close", "mclose")
    /\ \/ /\ NoFault
          /\ cres' = [op |-> "disconnect", err |-> "none"]
          /\ fops' = [fops EXCEPT ![i].pc = "mdrop"]
       \/ /\ CanFault /\ Fault
          /\ cres' \in {cres, [op |-> "disconnect", err |-> "DbError"]}
          /\ fops' = [fops EXCEPT ![i].pc = "ret", ![i].err = "DbError"]
    /\ UNCHANGED <<mvars, catalog, blobs, nextId, opened, written, streams>>

\* ManagedOpfs.close: this.#bucket = null
ManagerDrop(i) ==
    /\ AtPc(i, "close", "mdrop")
    /\ opened' = FALSE
    /\ fops' = [fops EXCEPT ![i].pc = "ret"]
    /\ UNCHANGED <<mvars, cvars, blobs, nextId, faults, written, streams>>

\* write(chunk) or close() of either stream class while the manager is not
\* open: writer.abort(reason), whose rejection is logged; #closed is not
\* touched
StreamNotOpen(s) ==
    /\ s \in Streams
    /\ ~opened
    /\ streams[s].pc = "idle"
    /\ NoFault \/ (CanFault /\ Fault)
    /\ streams' = [streams EXCEPT ![s].pc = "noclean", ![s].aborted = TRUE,
                                  ![s].res = "none"]
    /\ UNCHANGED <<mvars, cvars, blobs, nextId, opened, fops, written>>

\* the not-open branch after writer.abort: removeEntry of the stream's entity
\* (a failure is logged), then MopfsError "ManagedOpfs not open"
StreamNotOpenRemove(s) ==
    /\ s \in Streams
    /\ streams[s].pc = "noclean"
    /\ \/ /\ NoFault
          /\ blobs' = RemoveEntry(blobs, streams[s].eid)
       \/ /\ CanFault /\ Fault
          /\ blobs' = blobs
    /\ streams' = [streams EXCEPT ![s].pc = "idle", ![s].res = "NotOpen"]
    /\ UNCHANGED <<mvars, cvars, nextId, opened, fops, written>>

\* write(chunk) of a zero-length chunk: returns before writer.write; an
\* OverwritableFileStream has set #updateEntityId by then
StreamWriteEmpty(s) ==
    /\ Idle(s)
    /\ ~streams[s].closed
    /\ streams[s].writes < MaxWrites
    /\ streams' = [streams EXCEPT ![s].upd = (@ \/ streams[s].kind = "o"),
                                  ![s].writes = @ + 1,
                                  ![s].res = "ok"]
    /\ UNCHANGED <<mvars, cvars, blobs, nextId, opened, fops, faults, written>>

\* write(chunk) on a stream whose writer was aborted or errored:
\* OverwritableFileStream sets #updateEntityId, then writer.write(view) rejects
StreamWriteDead(s) ==
    /\ Idle(s)
    /\ ~streams[s].closed
    /\ streams[s].aborted
    /\ streams[s].writes <= MaxWrites
    /\ streams' = [streams EXCEPT ![s].upd = (@ \/ streams[s].kind = "o"),
                                  ![s].writes = @ + 1,
                                  ![s].res = "IoError"]
    /\ UNCHANGED <<mvars, cvars, blobs, nextId, opened, fops, faults, written>>

\* close() on a stream whose writer was aborted: writer.close() rejects
StreamCloseDead(s) ==
    /\ Idle(s)
    /\ ~streams[s].closed
    /\ streams[s].aborted
    /\ streams[s].kind = "w" \/ streams[s].upd
    /\ streams' = [streams EXCEPT ![s].pc = "cleanup", ![s].err = "IoError",
                                  ![s].res = "none"]
    /\ UNCHANGED <<mvars, cvars, blobs, nextId, opened, fops, faults, written>>

\* abort(reason) on a stream that is not closed: writer.abort(reason)
StreamAbortWriter(s) ==
    /\ s \in Streams
    /\ streams[s].pc = "idle"
    /\ ~streams[s].closed
    /\ \/ /\ NoFault
          /\ streams' = [streams EXCEPT ![s].pc = "abort", ![s].aborted = TRUE,
                                        ![s].err = "none", ![s].res = "none"]
       \/ /\ CanFault /\ Fault
          /\ streams' = [streams EXCEPT ![s].pc = "abort", ![s].aborted = TRUE,
                                        ![s].err = "IoError", ![s].res = "none"]
    /\ UNCHANGED <<mvars, cvars, blobs, nextId, opened, fops, written>>

\* an abort whose cleanup is skipped when writer.abort failed
StreamAbortUnstageSkip(s) ==
    /\ s \in Streams
    /\ streams[s].pc = "abort"
    /\ \/ /\ NoFault
          /\ blobs' = IF streams[s].err = "none"
                      THEN RemoveEntry(blobs, streams[s].eid) ELSE blobs
       \/ /\ CanFault /\ Fault
          /\ blobs' = blobs
    /\ streams' = [streams EXCEPT ![s].pc = "idle", ![s].closed = TRUE,
                      ![s].res = IF streams[s].err = "none" THEN "aborted"
                                 ELSE streams[s].err]
    /\ UNCHANGED <<mvars, cvars, nextId, opened, fops, written>>

\* abort(reason), finally block: #closed = true; removeEntry of the stream's
\* entity (a failure is logged); an error of writer.abort is rethrown
StreamAbortUnstage(s) ==
    /\ s \in Streams
    /\ streams[s].pc = "abort"
    /\ \/ /\ NoFault
          /\ blobs' = RemoveEntry(blobs, streams[s].eid)
       \/ /\ CanFault /\ Fault
          /\ blobs' = blobs
    /\ streams' = [streams EXCEPT ![s].pc = "idle", ![s].closed = TRUE,
                      ![s].res = IF streams[s].err = "none" THEN "aborted"
                                 ELSE streams[s].err]
    /\ UNCHANGED <<mvars, cvars, nextId, opened, fops, written>>

\* abort(reason) on a stream whose #closed is set: MopfsError "stream closed"
StreamAbortClosed(s) ==
    /\ s \in Streams
    /\ streams[s].pc = "idle"
    /\ streams[s].closed
    /\ streams[s].res # "AbortClosed"
    /\ streams' = [streams EXCEPT ![s].res = "AbortClosed"]
    /\ UNCHANGED <<mvars, cvars, blobs, nextId, opened, fops, faults, written>>

\* the method returns or throws: its promise settles
FsSettle(i) ==
    /\ i \in FOps
    /\ fops[i].pc = "ret"
    /\ Settle(i, IF fops[i].err = "none" THEN "ok" ELSE "err")
    /\ fops' = [fops EXCEPT ![i] = Retired]
    /\ UNCHANGED <<cvars, blobs, nextId, opened, faults, written, streams>>

\* .finally(next) of the decorator
FsFinally(i) ==
    /\ Finally(i)
    /\ UNCHANGED <<cvars, fvars>>

FsNext ==
    \/ FsInvoke
    \/ \E i \in 1..Len(mops) : FsBeginW(i)
    \/ \E i \in 1..Len(mops) : FsBeginR(i)
    \/ \E i \in 1..Len(mops) : WriteAlloc(i)
    \/ \E i \in 1..Len(mops) : WriteStage(i)
    \/ \E i \in 1..Len(mops) : WriteAbort(i)
    \/ \E i \in 1..Len(mops) : WriteClose(i)
    \/ \E i \in 1..Len(mops) : WriteCreate(i)
    \/ \E i \in 1..Len(mops) : WriteCleanup(i)
    \/ \E i \in 1..Len(mops) : ReadCatalog(i)
    \/ \E i \in 1..Len(mops) : ReadHandle(i)
    \/ \E i \in 1..Len(mops) : ReadGetFile(i)
    \/ \E i \in 1..Len(mops) : MoveCatalog(i)
    \/ \E i \in 1..Len(mops) : FsSettle(i)
    \/ \E i \in 1..Len(mops) : FsFinally(i)

\* ------------------------------------------------ file-lifecycle workload
\* writeFile, copyFile, removeFile, exists and readFile on one file
FileCalls ==
    {[op |-> "write", path |-> "a.txt", dst |-> "a.txt", data |-> <<7>>, mime |-> Undef],
     [op |-> "copy", path |-> "a.txt", dst |-> "b", data |-> <<>>, mime |-> Undef],
     [op |-> "copy", path |-> "a.txt", dst |-> "a.txt", data |-> <<>>, mime |-> Undef],
     [op |-> "remove", path |-> "a.txt", dst |-> "a.txt", data |-> <<>>, mime |-> Undef],
     [op |-> "exists", path |-> "a.txt", dst |-> "a.txt", data |-> <<>>, mime |-> Undef],
     [op |-> "read", path |-> "a.txt", dst |-> "a.txt", data |-> <<>>, mime |-> Undef]}

FileInvoke ==
    \E c \in FileCalls :
        /\ Len(fops) < MaxFileOps
        /\ IF Decorator(c.op) = "W" THEN InvokeW ELSE InvokeR
        /\ fops' = Append(fops, Fresh(c))
        /\ UNCHANGED <<cvars, blobs, nextId, opened, faults, written, streams>>

FileNext ==
    \/ FileInvoke
    \/ \E i \in 1..Len(mops) : FsBeginW(i)
    \/ \E i \in 1..Len(mops) : FsBeginR(i)
    \/ \E i \in 1..Len(mops) : WriteAlloc(i)
    \/ \E i \in 1..Len(mops) : WriteStage(i)
    \/ \E i \in 1..Len(mops) : WriteAbort(i)
    \/ \E i \in 1..Len(mops) : WriteClose(i)
    \/ \E i \in 1..Len(mops) : WriteCreate(i)
    \/ \E i \in 1..Len(mops) : WriteCleanup(i)
    \/ \E i \in 1..Len(mops) : ReadCatalog(i)
    \/ \E i \in 1..Len(mops) : ReadHandle(i)
    \/ \E i \in 1..Len(mops) : ReadDelete(i)
    \/ \E i \in 1..Len(mops) : ReadGetFile(i)
    \/ \E i \in 1..Len(mops) : CopyRead(i)
    \/ \E i \in 1..Len(mops) : CopyHandle(i)
    \/ \E i \in 1..Len(mops) : CopyDelete(i)
    \/ \E i \in 1..Len(mops) : CopyGetFile(i)
    \/ \E i \in 1..Len(mops) : CopyAlloc(i)
    \/ \E i \in 1..Len(mops) : CopyStage(i)
    \/ \E i \in 1..Len(mops) : CopyAbort(i)
    \/ \E i \in 1..Len(mops) : CopyClose(i)
    \/ \E i \in 1..Len(mops) : CopyCatalog(i)
    \/ \E i \in 1..Len(mops) : CopyCleanup(i)
    \/ \E i \in 1..Len(mops) : RemoveRead(i)
    \/ \E i \in 1..Len(mops) : RemoveBlob(i)
    \/ \E i \in 1..Len(mops) : RemoveCatch(i)
    \/ \E i \in 1..Len(mops) : RemoveDelete(i)
    \/ \E i \in 1..Len(mops) : ExistsRead(i)
    \/ \E i \in 1..Len(mops) : ExistsProbe(i)
    \/ \E i \in 1..Len(mops) : ExistsDelete(i)
    \/ \E i \in 1..Len(mops) : FsSettle(i)
    \/ \E i \in 1..Len(mops) : FsFinally(i)

\* ------------------------------------------------ overwrite workload
\* writeFile, overwriteFile and createOverwritable on one file, and the
\* methods of the streams createOverwritable returned
OverwriteCalls ==
    {[op |-> "write", path |-> "a.txt", dst |-> "a.txt", data |-> <<>>, mime |-> Undef],
     [op |-> "overwrite", path |-> "a.txt", dst |-> "a.txt", data |-> <<8>>,
      mime |-> Undef, view |-> TRUE],
     [op |-> "createOverwritable", path |-> "a.txt", dst |-> "a.txt", data |-> <<>>,
      mime |-> Undef]}

OverwriteInvoke ==
    \E c \in OverwriteCalls :
        /\ Len(fops) < MaxStreamOps
        /\ IF Decorator(c.op) = "W" THEN InvokeW ELSE InvokeR
        /\ fops' = Append(fops, Fresh(c))
        /\ UNCHANGED <<cvars, blobs, nextId, opened, faults, written, streams>>

OverwriteNext ==
    \/ OverwriteInvoke
    \/ \E i \in 1..Len(mops) : FsBeginW(i)
    \/ \E i \in 1..Len(mops) : FsBeginR(i)
    \/ \E i \in 1..Len(mops) : WriteAlloc(i)
    \/ \E i \in 1..Len(mops) : WriteStage(i)
    \/ \E i \in 1..Len(mops) : WriteAbort(i)
    \/ \E i \in 1..Len(mops) : WriteClose(i)
    \/ \E i \in 1..Len(mops) : WriteCreate(i)
    \/ \E i \in 1..Len(mops) : WriteCleanup(i)
    \/ \E i \in 1..Len(mops) : OverwriteRead(i)
    \/ \E i \in 1..Len(mops) : OverwriteAlloc(i)
    \/ \E i \in 1..Len(mops) : OverwriteStage(i)
    \/ \E i \in 1..Len(mops) : OverwriteAbort(i)
    \/ \E i \in 1..Len(mops) : OverwriteClose(i)
    \/ \E i \in 1..Len(mops) : OverwriteUpdate(i)
    \/ \E i \in 1..Len(mops) : OverwriteCleanup(i)
    \/ \E i \in 1..Len(mops) : OverwriteRemoveOld(i)
    \/ \E i \in 1..Len(mops) : CreateOverwritableRead(i)
    \/ \E i \in 1..Len(mops) : CreateOverwritableAlloc(i)
    \/ \E i \in 1..Len(mops) : CreateOverwritableOpen(i)
    \/ \E i \in 1..Len(mops) : CreateOverwritableCleanup(i)
    \/ \E s \in Streams : StreamWrite(s)
    \/ \E s \in Streams : StreamWriteDead(s)
    \/ \E s \in Streams : StreamClosed(s)
    \/ \E s \in Streams : StreamCloseWriter(s)
    \/ \E s \in Streams : StreamCloseDead(s)
    \/ \E s \in Streams : OverwritableUpdate(s)
    \/ \E s \in Streams : StreamCleanup(s)
    \/ \E s \in Streams : OverwritableRemoveOld(s)
    \/ \E s \in Streams : OverwritableMeta(s)
    \/ \E s \in Streams : OverwritableUnstage(s)
    \/ \E i \in 1..Len(mops) : FsSettle(i)
    \/ \E i \in 1..Len(mops) : FsFinally(i)

\* ------------------------------------------------ writable-stream workload
\* writeFile and createWritable on one path, and the methods of the streams
\* createWritable returned.
WritableCalls ==
    {[op |-> "write", path |-> "a.txt", dst |-> "a.txt", data |-> <<>>, mime |-> Undef],
     [op |-> "createWritable", path |-> "a.txt", dst |-> "a.txt", data |-> <<>>,
      mime |-> "image/png"]}

\* the manager's methods are called one after the other here; the streams
\* work while the next method runs
WritableInvoke ==
    \E c \in WritableCalls :
        /\ Len(fops) < MaxWritableOps
        /\ \A j \in 1..Len(mops) : mops[j].st = "done"
        /\ IF Decorator(c.op) = "W" THEN InvokeW ELSE InvokeR
        /\ fops' = Append(fops, Fresh(c))
        /\ UNCHANGED <<cvars, blobs, nextId, opened, faults, written, streams>>

WritableNext ==
    \/ WritableInvoke
    \/ \E i \in 1..Len(mops) : FsBeginW(i)
    \/ \E i \in 1..Len(mops) : FsBeginR(i)
    \/ \E i \in 1..Len(mops) : WriteAlloc(i)
    \/ \E i \in 1..Len(mops) : WriteStage(i)
    \/ \E i \in 1..Len(mops) : WriteAbort(i)
    \/ \E i \in 1..Len(mops) : WriteClose(i)
    \/ \E i \in 1..Len(mops) : WriteCreate(i)
    \/ \E i \in 1..Len(mops) : WriteCleanup(i)
    \/ \E i \in 1..Len(mops) : CreateWritableAlloc(i)
    \/ \E i \in 1..Len(mops) : CreateWritableOpen(i)
    \/ \E i \in 1..Len(mops) : CreateWritableCleanup(i)
    \/ \E s \in Streams : Unused(s) /\ StreamSetType(s)
    \/ \E s \in Streams : Unused(s) /\ StreamSetDescription(s)
    \/ \E s \in Streams : Unused(s) /\ StreamSetMetadata(s)
    \/ \E s \in Streams : StreamWrite(s)
    \/ \E s \in Streams : StreamWriteDead(s)
    \/ \E s \in Streams : StreamClosed(s)
    \/ \E s \in Streams : StreamCloseWriter(s)
    \/ \E s \in Streams : StreamCloseDead(s)
    \/ \E s \in Streams : WritableCreate(s)
    \/ \E s \in Streams : StreamCleanup(s)
    \/ \E i \in 1..Len(mops) : FsSettle(i)
    \/ \E i \in 1..Len(mops) : FsFinally(i)

\* ------------------------------------------------ stream-lifecycle workload
\* the caller works with the stream it was given last
LastStream == IF streams = <<>> THEN {} ELSE {Len(streams)}

\* a sequential caller: every call is awaited before the next is made
Quiet ==
    /\ \A j \in 1..Len(mops) : mops[j].st = "done"
    /\ \A s \in Streams : streams[s].pc = "idle"

\* writeFile, removeFile, createWritable and createOverwritable on one path,
\* and write, close and abort of the streams.
LifeCalls ==
    {[op |-> "write", path |-> "a.txt", dst |-> "a.txt", data |-> <<>>, mime |-> Undef],
     [op |-> "remove", path |-> "a.txt", dst |-> "a.txt", data |-> <<>>, mime |-> Undef],
     [op |-> "createWritable", path |-> "a.txt", dst |-> "a.txt", data |-> <<>>,
      mime |-> Undef],
     [op |-> "createOverwritable", path |-> "a.txt", dst |-> "a.txt", data |-> <<>>,
      mime |-> "image/png"]}

\* a stream is requested when the streams before it are closed
LifeInvoke ==
    \E c \in LifeCalls :
        /\ Len(fops) < MaxLifeOps
        /\ Quiet
        /\ c.op \in {"createWritable", "createOverwritable"} =>
               \A s \in Streams : streams[s].closed
        /\ IF Decorator(c.op) = "W" THEN InvokeW ELSE InvokeR
        /\ fops' = Append(fops, Fresh(c))
        /\ UNCHANGED <<cvars, blobs, nextId, opened, faults, written, streams>>

LifeCore ==
    \/ LifeInvoke
    \/ \E i \in 1..Len(mops) : FsBeginW(i)
    \/ \E i \in 1..Len(mops) : FsBeginR(i)
    \/ \E i \in 1..Len(mops) : WriteAlloc(i)
    \/ \E i \in 1..Len(mops) : WriteStage(i)
    \/ \E i \in 1..Len(mops) : WriteAbort(i)
    \/ \E i \in 1..Len(mops) : WriteClose(i)
    \/ \E i \in 1..Len(mops) : WriteCreate(i)
    \/ \E i \in 1..Len(mops) : WriteCleanup(i)
    \/ \E i \in 1..Len(mops) : RemoveRead(i)
    \/ \E i \in 1..Len(mops) : RemoveBlob(i)
    \/ \E i \in 1..Len(mops) : RemoveCatch(i)
    \/ \E i \in 1..Len(mops) : RemoveDelete(i)
    \/ \E i \in 1..Len(mops) : CreateWritableAlloc(i)
    \/ \E i \in 1..Len(mops) : CreateWritableOpen(i)
    \/ \E i \in 1..Len(mops) : CreateWritableCleanup(i)
    \/ \E i \in 1..Len(mops) : CreateOverwritableRead(i)
    \/ \E i \in 1..Len(mops) : CreateOverwritableAlloc(i)
    \/ \E i \in 1..Len(mops) : CreateOverwritableOpen(i)
    \/ \E i \in 1..Len(mops) : CreateOverwritableCleanup(i)
    \/ \E s \in LastStream : Quiet /\ StreamWrite(s)
    \/ \E s \in LastStream : Quiet /\ StreamWriteDead(s)
    \/ \E s \in LastStream : Quiet /\ StreamClosed(s)
    \/ \E s \in LastStream : Quiet /\ StreamCloseWriter(s)
    \/ \E s \in LastStream : Quiet /\ StreamCloseDead(s)
    \/ \E s \in Streams : WritableCreate(s)
    \/ \E s \in Streams : OverwritableUpdate(s)
    \/ \E s \in Streams : StreamCleanup(s)
    \/ \E s \in Streams : OverwritableRemoveOld(s)
    \/ \E s \in LastStream : Quiet /\ OverwritableMeta(s)
    \/ \E s \in Streams : OverwritableUnstage(s)
    \/ \E s \in LastStream : Quiet /\ StreamAbortWriter(s)
    \/ \E s \in Streams : StreamAbortUnstage(s)
    \/ \E s \in LastStream : Quiet /\ StreamAbortClosed(s)
    \/ \E i \in 1..Len(mops) : FsSettle(i)
    \/ \E i \in 1..Len(mops) : FsFinally(i)

\* the stream-lifecycle workload, with the description of a fresh
\* OverwritableFileStream assigned
LifeNext ==
    \/ LifeCore
    \/ \E s \in LastStream : Quiet /\ Unused(s) /\ streams[s].kind = "o"
                                /\ StreamSetDescription(s)

\* ------------------------------------------------ closed-manager workload
\* writeFile, createWritable and createOverwritable on one path, close and
\* open of the manager, and write and close of the streams.
ReopenCalls ==
    {[op |-> "write", path |-> "a.txt", dst |-> "a.txt", data |-> <<>>, mime |-> Undef],
     [op |-> "createWritable", path |-> "a.txt", dst |-> "a.txt", data |-> <<>>,
      mime |-> Undef],
     [op |-> "createOverwritable", path |-> "a.txt", dst |-> "a.txt", data |-> <<>>,
      mime |-> "image/png"],
     [op |-> "close", path |-> "a.txt", dst |-> "a.txt", data |-> <<>>, mime |-> Undef],
     [op |-> "open", path |-> "a.txt", dst |-> "a.txt", data |-> <<>>, mime |-> Undef]}

\* files and streams are requested while the manager is open, one stream at
\* a time; close() on an open manager and open() on a closed one
ReopenInvoke ==
    \E c \in ReopenCalls :
        /\ Len(fops) < MaxReopenOps
        /\ Quiet
        /\ c.op \in {"write", "createWritable", "createOverwritable"} =>
               opened /\ streams = <<>>
        /\ c.op = "close" => opened
        /\ c.op = "open" => ~opened
        /\ IF Decorator(c.op) = "W" THEN InvokeW ELSE InvokeR
        /\ fops' = Append(fops, Fresh(c))
        /\ UNCHANGED <<cvars, blobs, nextId, opened, faults, written, streams>>

ReopenNext ==
    \/ ReopenInvoke
    \/ \E i \in 1..Len(mops) : FsBeginW(i)
    \/ \E i \in 1..Len(mops) : FsBeginR(i)
    \/ \E i \in 1..Len(mops) : ManagerConnect(i)
    \/ \E i \in 1..Len(mops) : ManagerDirs(i)
    \/ \E i \in 1..Len(mops) : ManagerUndo(i)
    \/ \E i \in 1..Len(mops) : ManagerDisconnect(i)
    \/ \E i \in 1..Len(mops) : ManagerDrop(i)
    \/ \E i \in 1..Len(mops) : WriteAlloc(i)
    \/ \E i \in 1..Len(mops) : WriteStage(i)
    \/ \E i \in 1..Len(mops) : WriteAbort(i)
    \/ \E i \in 1..Len(mops) : WriteClose(i)
    \/ \E i \in 1..Len(mops) : WriteCreate(i)
    \/ \E i \in 1..Len(mops) : WriteCleanup(i)
    \/ \E i \in 1..Len(mops) : CreateWritableAlloc(i)
    \/ \E i \in 1..Len(mops) : CreateWritableOpen(i)
    \/ \E i \in 1..Len(mops) : CreateWritableCleanup(i)
    \/ \E i \in 1..Len(mops) : CreateOverwritableRead(i)
    \/ \E i \in 1..Len(mops) : CreateOverwritableAlloc(i)
    \/ \E i \in 1..Len(mops) : CreateOverwritableOpen(i)
    \/ \E i \in 1..Len(mops) : CreateOverwritableCleanup(i)
    \/ \E s \in Streams : Quiet /\ StreamWrite(s)
    \/ \E s \in Streams : Quiet /\ StreamWriteDead(s)
    \/ \E s \in Streams : Quiet /\ StreamNotOpen(s)
    \/ \E s \in Streams : StreamNotOpenRemove(s)
    \/ \E s \in Streams : Quiet /\ StreamClosed(s)
    \/ \E s \in Streams : Quiet /\ StreamCloseWriter(s)
    \/ \E s \in Streams : Quiet /\ StreamCloseDead(s)
    \/ \E s \in Streams : WritableCreate(s)
    \/ \E s \in Streams : OverwritableUpdate(s)
    \/ \E s \in Streams : StreamCleanup(s)
    \/ \E s \in Streams : OverwritableRemoveOld(s)
    \/ \E s \in Streams : Quiet /\ OverwritableMeta(s)
    \/ \E s \in Streams : OverwritableUnstage(s)
    \/ \E i \in 1..Len(mops) : FsSettle(i)
    \/ \E i \in 1..Len(mops) : FsFinally(i)

\* ------------------------------------------------ side-data workload
\* writeFile and the overwriteFile calls that carry no data.
MetaCalls ==
    {[op |-> "write", path |-> "a.txt", dst |-> "a.txt", data |-> <<7>>, mime |-> Undef,
      view |-> TRUE],
     [op |-> "overwrite", path |-> "a.txt", dst |-> "a.txt", data |-> <<>>,
      mime |-> Undef, view |-> FALSE],
     [op |-> "overwrite", path |-> "a.txt", dst |-> "a.txt", data |-> <<>>,
      mime |-> "image/png", view |-> FALSE]}

MetaInvoke ==
    \E c \in MetaCalls :
        /\ Len(fops) < MaxMetaOps
        /\ InvokeW
        /\ fops' = Append(fops, Fresh(c))
        /\ UNCHANGED <<cvars, blobs, nextId, opened, faults, written, streams>>

\* The stream-lifecycle workload with zero-length chunks.
ChunkNext ==
    \/ LifeCore
    \/ \E s \in LastStream : Quiet /\ StreamWriteEmpty(s)

\* ------------------------------------ one stream behind its own scheduler
\* The methods of a WritableFileStream are decorated with @mutex on the stream
\* instance. Here mq / slots / mops are the queue of that one stream, and
\* fops[i] holds the locals of the i-th call made on it. The calls are made
\* without awaiting the earlier ones: writes first, then up to two close()
\* and one abort().
OwnChunks == {<<7>>, <<8, 9>>}

OwnCalls ==
    {[op |-> "swrite", chunk |-> c] : c \in OwnChunks}
    \cup {[op |-> "sclose", chunk |-> <<>>], [op |-> "sabort", chunk |-> <<>>]}

\* createWritable("a.txt") on the idle manager, start to end
OwnCreate ==
    /\ streams = <<>>
    /\ nextId' = nextId + 1
    /\ blobs' = CreateEntry(blobs, nextId)
    /\ streams' = <<NewStream("w", [path |-> "a.txt", eid |-> nextId, old |-> 0],
                              GetMimeType(Basename("a.txt")))>>
    /\ UNCHANGED <<mvars, cvars, opened, fops, faults, written>>

OwnInvoke ==
    \E c \in OwnCalls :
        /\ streams # <<>>
        /\ c.op = "swrite" => \A j \in 1..Len(fops) : fops[j].op = "swrite"
        /\ c.op = "sclose" =>
               Cardinality({j \in 1..Len(fops) : fops[j].op = "sclose"}) < 2
        /\ c.op = "sabort" => \A j \in 1..Len(fops) : fops[j].op # "sabort"
        /\ InvokeW
        /\ fops' = Append(fops, [op |-> c.op, chunk |-> c.chunk, pc |-> "entry",
                                 size |-> 0, seq |-> 0])
        /\ UNCHANGED <<cvars, blobs, nextId, opened, faults, written, streams>>

\* write(chunk) up to `await this.#writer.write(view)`: the new size is
\* computed from #size and the chunk is handed to the writer
OwnWriteBegin(i) ==
    /\ i \in 1..Len(fops)
    /\ fops[i].op = "swrite"
    /\ BeginW(i)
    /\ IF streams[1].closed \/ streams[1].pc = "commit" \/ streams[1].aborted
       THEN /\ fops' = [fops EXCEPT ![i].pc = "reject"]
            /\ streams' = streams
       ELSE /\ fops' = [fops EXCEPT ![i].pc = "await",
                                    ![i].size = streams[1].size + Len(fops[i].chunk),
                                    ![i].seq = streams[1].writes + 1]
            /\ streams' = [streams EXCEPT ![1].staged = @ \o fops[i].chunk,
                                          ![1].writes = @ + 1]
    /\ UNCHANGED <<cvars, blobs, nextId, opened, faults, written>>

\* write(chunk) after the await: this.#size = size; this.#hash.update(view).
\* The writer resolves its writes in the order they were handed to it.
OwnWriteResume(i) ==
    /\ i \in 1..Len(fops)
    /\ fops[i].op = "swrite" /\ fops[i].pc = "await"
    /\ \A j \in 1..Len(fops) : fops[j].pc = "await" => fops[j].seq >= fops[i].seq
    /\ Settle(i, "ok")
    /\ fops' = [fops EXCEPT ![i].pc = "done"]
    /\ streams' = [streams EXCEPT ![1].size = fops[i].size,
                                  ![1].hashed = @ \o fops[i].chunk]
    /\ UNCHANGED <<cvars, blobs, nextId, opened, faults, written>>

\* write(chunk) on a writer that is closing, closed or aborted: writer.write
\* rejects. A write still queued in the writer behind an earlier one when the
\* writer is aborted rejects as well, unless the writer had drained its queue
\* and is closing.
OwnWriteReject(i) ==
    /\ i \in 1..Len(fops)
    /\ fops[i].op = "swrite"
    /\ \/ fops[i].pc = "reject"
       \/ /\ fops[i].pc = "await" /\ streams[1].aborted
          /\ \E j \in 1..Len(fops) : fops[j].pc = "await" /\ fops[j].seq < fops[i].seq
          /\ \A j \in 1..Len(fops) : fops[j].pc \notin {"closing", "create"}
    /\ Settle(i, "err")
    /\ fops' = [fops EXCEPT ![i].pc = "done"]
    /\ UNCHANGED <<cvars, blobs, nextId, opened, faults, written, streams>>

\* close() up to `await this.#writer.close()`: MopfsError "stream closed"
\* when #closed is set; writer.close() rejects when an earlier close() has
\* closed the writer or is closing it, or an abort() has aborted it; otherwise
\* the writer starts closing
OwnCloseBegin(i) ==
    /\ i \in 1..Len(fops)
    /\ fops[i].op = "sclose"
    /\ BeginW(i)
    /\ IF streams[1].closed
       THEN /\ fops' = [fops EXCEPT ![i].pc = "reject"]
            /\ streams' = streams
       ELSE IF streams[1].pc = "commit" \/ streams[1].aborted
       THEN /\ fops' = [fops EXCEPT ![i].pc = "cleanup"]
            /\ streams' = streams
       ELSE /\ fops' = [fops EXCEPT ![i].pc = "closing"]
            /\ streams' = [streams EXCEPT ![1].pc = "commit"]
    /\ UNCHANGED <<cvars, blobs, nextId, opened, faults, written>>

\* `await this.#writer.close()` resolves: the writes handed to the writer have
\* resolved and the bytes are the content of the entry (which is created
\* again when it was removed meanwhile)
OwnCloseWriter(i) ==
    /\ i \in 1..Len(fops)
    /\ fops[i].op = "sclose" /\ fops[i].pc = "closing"
    /\ \A j \in 1..Len(fops) : fops[j].pc # "await"
    /\ blobs' = CommitEntry(blobs, streams[1].eid, streams[1].staged)
    /\ fops' = [fops EXCEPT ![i].pc = "create"]
    /\ UNCHANGED <<mvars, cvars, nextId, opened, faults, written, streams>>

\* close() on a stream whose #closed is set: the MopfsError reaches the caller
OwnCloseReject(i) ==
    /\ i \in 1..Len(fops)
    /\ fops[i].op = "sclose" /\ fops[i].pc = "reject"
    /\ Settle(i, "err")
    /\ fops' = [fops EXCEPT ![i].pc = "done"]
    /\ UNCHANGED <<cvars, blobs, nextId, opened, faults, written, streams>>

\* close(), catch block after the rejected writer.close():
\* removeEntry(#entityId), whose failure is logged, rethrow; finally
\* #closed = true. While another close() is closing the writer the entry is
\* still open for writing: removeEntry removes it or is refused, as the
\* platform decides.
OwnCloseCleanup(i) ==
    /\ i \in 1..Len(fops)
    /\ fops[i].op = "sclose" /\ fops[i].pc = "cleanup"
    /\ Settle(i, "err")
    /\ fops' = [fops EXCEPT ![i].pc = "done"]
    /\ \/ blobs' = RemoveEntry(blobs, streams[1].eid)
       \/ /\ \E j \in 1..Len(fops) : fops[j].pc = "closing"
          /\ blobs' = blobs
    /\ streams' = [streams EXCEPT ![1].closed = TRUE]
    /\ UNCHANGED <<cvars, nextId, opened, faults, written>>

\* close() after writer.close(): catalog.create with hash.digest() and #size
\* resolves; finally #closed = true
OwnCloseCommit(i) ==
    /\ i \in 1..Len(fops)
    /\ fops[i].op = "sclose" /\ fops[i].pc = "create"
    /\ \E now \in Times :
          catalog' = CatCreate(catalog, StreamCreateInput(streams[1]), now).tab
    /\ cres' = cres
    /\ Settle(i, "ok")
    /\ fops' = [fops EXCEPT ![i].pc = "done"]
    /\ streams' = [streams EXCEPT ![1].pc = "idle", ![1].closed = TRUE, ![1].res = "ok"]
    /\ UNCHANGED <<blobs, nextId, opened, faults, written>>

\* abort(reason) up to `await this.#writer.abort(reason)`: MopfsError
\* "stream closed" when #closed is set. A close() of the writer that is
\* still queued behind a write is rejected by the abort; one that the writer
\* is carrying out completes.
OwnAbortBegin(i) ==
    /\ i \in 1..Len(fops)
    /\ fops[i].op = "sabort"
    /\ BeginW(i)
    /\ IF streams[1].closed
       THEN /\ fops' = [fops EXCEPT ![i].pc = "reject"]
            /\ streams' = streams
       ELSE /\ \E queued \in IF \E j \in 1..Len(fops) : fops[j].pc = "await"
                            THEN BOOLEAN ELSE {FALSE} :
                  fops' = [j \in 1..Len(fops) |->
                             IF j = i THEN [fops[j] EXCEPT !.pc = "aborting"]
                             ELSE IF queued /\ fops[j].pc = "closing"
                             THEN [fops[j] EXCEPT !.pc = "cleanup"]
                             ELSE fops[j]]
            /\ streams' = [streams EXCEPT ![1].aborted = TRUE]
    /\ UNCHANGED <<cvars, blobs, nextId, opened, faults, written>>

\* abort() on a stream whose #closed is set: the MopfsError reaches the caller
OwnAbortReject(i) ==
    /\ i \in 1..Len(fops)
    /\ fops[i].op = "sabort" /\ fops[i].pc = "reject"
    /\ Settle(i, "err")
    /\ fops' = [fops EXCEPT ![i].pc = "done"]
    /\ UNCHANGED <<cvars, blobs, nextId, opened, faults, written, streams>>

\* `await this.#writer.abort(reason)` resolves, after the write or close the
\* writer was carrying out: finally #closed = true and removeEntry is called
OwnAbortClosed(i) ==
    /\ i \in 1..Len(fops)
    /\ fops[i].op = "sabort" /\ fops[i].pc = "aborting"
    /\ \A j \in 1..Len(fops) : fops[j].pc \notin {"await", "closing"}
    /\ fops' = [fops EXCEPT ![i].pc = "unstage"]
    /\ streams' = [streams EXCEPT ![1].closed = TRUE]
    /\ UNCHANGED <<mvars, cvars, blobs, nextId, opened, faults, written>>

\* abort(), `await this.#mainDir.removeEntry(this.#entityId)` resolves
OwnAbortFinish(i) ==
    /\ i \in 1..Len(fops)
    /\ fops[i].op = "sabort" /\ fops[i].pc = "unstage"
    /\ Settle(i, "ok")
    /\ fops' = [fops EXCEPT ![i].pc = "done"]
    /\ blobs' = RemoveEntry(blobs, streams[1].eid)
    /\ UNCHANGED <<cvars, nextId, opened, faults, written, streams>>

OwnFinally(i) ==
    /\ Finally(i)
    /\ UNCHANGED <<cvars, fvars>>

OwnNext ==
    \/ OwnCreate
    \/ OwnInvoke
    \/ \E i \in 1..Len(mops) : OwnWriteBegin(i)
    \/ \E i \in 1..Len(mops) : OwnWriteResume(i)
    \/ \E i \in 1..Len(mops) : OwnWriteReject(i)
    \/ \E i \in 1..Len(mops) : OwnCloseBegin(i)
    \/ \E i \in 1..Len(mops) : OwnCloseWriter(i)
    \/ \E i \in 1..Len(mops) : OwnCloseReject(i)
    \/ \E i \in 1..Len(mops) : OwnCloseCleanup(i)
    \/ \E i \in 1..Len(mops) : OwnCloseCommit(i)
    \/ \E i \in 1..Len(mops) : OwnAbortBegin(i)
    \/ \E i \in 1..Len(mops) : OwnAbortReject(i)
    \/ \E i \in 1..Len(mops) : OwnAbortClosed(i)
    \/ \E i \in 1..Len(mops) : OwnAbortFinish(i)
    \/ \E i \in 1..Len(mops) : OwnFinally(i)

\* ------------------------- readers of a path against a stream commit on it
\* writeFile("a.txt") first, then createOverwritable("a.txt"); readFile,
\* exists and copyFile("a.txt", "b") are then called while the stream's
\* methods run, which the manager's scheduler does not order.
HealCalls ==
    {[op |-> "write", path |-> "a.txt", dst |-> "a.txt", data |-> <<>>, mime |-> Undef],
     [op |-> "createOverwritable", path |-> "a.txt", dst |-> "a.txt", data |-> <<>>,
      mime |-> Undef],
     [op |-> "read", path |-> "a.txt", dst |-> "a.txt", data |-> <<>>, mime |-> Undef],
     [op |-> "exists", path |-> "a.txt", dst |-> "a.txt", data |-> <<>>, mime |-> Undef],
     [op |-> "copy", path |-> "a.txt", dst |-> "b", data |-> <<>>, mime |-> Undef]}

HealInvoke ==
    \E c \in HealCalls :
        /\ Len(fops) < MaxHealOps
        /\ \A j \in 1..Len(mops) : mops[j].st = "done"
        /\ CASE c.op = "write" -> fops = <<>>
             [] c.op = "createOverwritable" -> Len(fops) = 1 /\ streams = <<>>
             [] OTHER -> Len(streams) = 1
        /\ IF Decorator(c.op) = "W" THEN InvokeW ELSE InvokeR
        /\ fops' = Append(fops, Fresh(c))
        /\ UNCHANGED <<cvars, blobs, nextId, opened, faults, written, streams>>

HealNext ==
    \/ HealInvoke
    \/ \E i \in 1..Len(mops) : FsBeginW(i)
    \/ \E i \in 1..Len(mops) : FsBeginR(i)
    \/ \E i \in 1..Len(mops) : WriteAlloc(i)
    \/ \E i \in 1..Len(mops) : WriteStage(i)
    \/ \E i \in 1..Len(mops) : WriteAbort(i)
    \/ \E i \in 1..Len(mops) : WriteClose(i)
    \/ \E i \in 1..Len(mops) : WriteCreate(i)
    \/ \E i \in 1..Len(mops) : WriteCleanup(i)
    \/ \E i \in 1..Len(mops) : CreateOverwritableRead(i)
    \/ \E i \in 1..Len(mops) : CreateOverwritableAlloc(i)
    \/ \E i \in 1..Len(mops) : CreateOverwritableOpen(i)
    \/ \E i \in 1..Len(mops) : CreateOverwritableCleanup(i)
    \/ \E i \in 1..Len(mops) : ReadCatalog(i)
    \/ \E i \in 1..Len(mops) : ReadHandle(i)
    \/ \E i \in 1..Len(mops) : ReadDelete(i)
    \/ \E i \in 1..Len(mops) : ReadGetFile(i)
    \/ \E i \in 1..Len(mops) : ExistsRead(i)
    \/ \E i \in 1..Len(mops) : ExistsProbe(i)
    \/ \E i \in 1..Len(mops) : ExistsDelete(i)
    \/ \E i \in 1..Len(mops) : CopyRead(i)
    \/ \E i \in 1..Len(mops) : CopyHandle(i)
    \/ \E i \in 1..Len(mops) : CopyDelete(i)
    \/ \E i \in 1..Len(mops) : CopyGetFile(i)
    \/ \E i \in 1..Len(mops) : CopyAlloc(i)
    \/ \E i \in 1..Len(mops) : CopyStage(i)
    \/ \E i \in 1..Len(mops) : CopyAbort(i)
    \/ \E i \in 1..Len(mops) : CopyClose(i)
    \/ \E i \in 1..Len(mops) : CopyCatalog(i)
    \/ \E i \in 1..Len(mops) : CopyCleanup(i)
    \/ \E s \in Streams : StreamWrite(s)
    \/ \E s \in Streams : StreamWriteDead(s)
    \/ \E s \in Streams : StreamClosed(s)
    \/ \E s \in Streams : StreamCloseWriter(s)
    \/ \E s \in Streams : StreamCloseDead(s)
    \/ \E s \in Streams : OverwritableUpdate(s)
    \/ \E s \in Streams : StreamCleanup(s)
    \/ \E s \in Streams : OverwritableRemoveOld(s)
    \/ \E s \in Streams : OverwritableMeta(s)
    \/ \E s \in Streams : OverwritableUnstage(s)
    \/ \E i \in 1..Len(mops) : FsSettle(i)
    \/ \E i \in 1..Len(mops) : FsFinally(i)

\* ------------------------------- ManagedOpfs.close against an open stream
\* One stream is created on the idle manager; close() is then called on the
\* manager while the stream's methods run.
DrainCalls ==
    {[op |-> "write", path |-> "a.txt", dst |-> "a.txt", data |-> <<>>, mime |-> Undef],
     [op |-> "createWritable", path |-> "b", dst |-> "b", data |-> <<>>,
      mime |-> Undef],
     [op |-> "createOverwritable", path |-> "a.txt", dst |-> "a.txt", data |-> <<>>,
      mime |-> "image/png"],
     [op |-> "close", path |-> "a.txt", dst |-> "a.txt", data |-> <<>>, mime |-> Undef]}

DrainInvoke ==
    \E c \in DrainCalls :
        /\ Len(fops) < MaxDrainOps
        /\ \A j \in 1..Len(mops) : mops[j].st = "done"
        /\ opened /\ Connected
        /\ IF c.op = "close" THEN Len(streams) = 1 ELSE streams = <<>>
        /\ IF Decorator(c.op) = "W" THEN InvokeW ELSE InvokeR
        /\ fops' = Append(fops, Fresh(c))
        /\ UNCHANGED <<cvars, blobs, nextId, opened, faults, written, streams>>

DrainNext ==
    \/ DrainInvoke
    \/ \E i \in 1..Len(mops) : FsBeginW(i)
    \/ \E i \in 1..Len(mops) : FsBeginR(i)
    \/ \E i \in 1..Len(mops) : ManagerDisconnect(i)
    \/ \E i \in 1..Len(mops) : ManagerDrop(i)
    \/ \E i \in 1..Len(mops) : WriteAlloc(i)
    \/ \E i \in 1..Len(mops) : WriteStage(i)
    \/ \E i \in 1..Len(mops) : WriteAbort(i)
    \/ \E i \in 1..Len(mops) : WriteClose(i)
    \/ \E i \in 1..Len(mops) : WriteCreate(i)
    \/ \E i \in 1..Len(mops) : WriteCleanup(i)
    \/ \E i \in 1..Len(mops) : CreateWritableAlloc(i)
    \/ \E i \in 1..Len(mops) : CreateWritableOpen(i)
    \/ \E i \in 1..Len(mops) : CreateWritableCleanup(i)
    \/ \E i \in 1..Len(mops) : CreateOverwritableRead(i)
    \/ \E i \in 1..Len(mops) : CreateOverwritableAlloc(i)
    \/ \E i \in 1..Len(mops) : CreateOverwritableOpen(i)
    \/ \E i \in 1..Len(mops) : CreateOverwritableCleanup(i)
    \/ \E s \in Streams : Unused(s) /\ StreamSetType(s)
    \/ \E s \in Streams : Unused(s) /\ StreamSetDescription(s)
    \/ \E s \in Streams : Unused(s) /\ StreamSetMetadata(s)
    \/ \E s \in Streams : StreamWrite(s)
    \/ \E s \in Streams : StreamWriteDead(s)
    \/ \E s \in Streams : StreamNotOpen(s)
    \/ \E s \in Streams : StreamNotOpenRemove(s)
    \/ \E s \in Streams : StreamClosed(s)
    \/ \E s \in Streams : StreamCloseWriter(s)
    \/ \E s \in Streams : StreamCloseDead(s)
    \/ \E s \in Streams : WritableCreate(s)
    \/ \E s \in Streams : OverwritableUpdate(s)
    \/ \E s \in Streams : StreamCleanup(s)
    \/ \E s \in Streams : OverwritableRemoveOld(s)
    \/ \E s \in Streams : OverwritableMeta(s)
    \/ \E s \in Streams : OverwritableUnstage(s)
    \/ \E i \in 1..Len(mops) : FsSettle(i)
    \/ \E i \in 1..Len(mops) : FsFinally(i)

MetaNext ==
    \/ MetaInvoke
    \/ \E i \in 1..Len(mops) : FsBeginW(i)
    \/ \E i \in 1..Len(mops) : WriteAlloc(i)
    \/ \E i \in 1..Len(mops) : WriteStage(i)
    \/ \E i \in 1..Len(mops) : WriteAbort(i)
    \/ \E i \in 1..Len(mops) : WriteClose(i)
    \/ \E i \in 1..Len(mops) : WriteCreate(i)
    \/ \E i \in 1..Len(mops) : WriteCleanup(i)
    \/ \E i \in 1..Len(mops) : OverwriteRead(i)
    \/ \E i \in 1..Len(mops) : FsSettle(i)
    \/ \E i \in 1..Len(mops) : FsFinally(i)

\* ------------------------------------------------ failing-cleanup workload
\* Every method of ManagedOpfs that has a compensating step, on one file,
\* close and open of the manager, and write, close and abort of the streams.
CleanupCalls ==
    {[op |-> "write", path |-> "a.txt", dst |-> "a.txt", data |-> <<7>>, mime |-> Undef],
     [op |-> "read", path |-> "a.txt", dst |-> "a.txt", data |-> <<>>, mime |-> Undef],
     [op |-> "exists", path |-> "a.txt", dst |-> "a.txt", data |-> <<>>, mime |-> Undef],
     [op |-> "copy", path |-> "a.txt", dst |-> "b", data |-> <<>>, mime |-> Undef],
     [op |-> "copy", path |-> "a.txt", dst |-> "a.txt", data |-> <<>>, mime |-> Undef],
     [op |-> "remove", path |-> "a.txt", dst |-> "a.txt", data |-> <<>>, mime |-> Undef],
     [op |-> "overwrite", path |-> "a.txt", dst |-> "a.txt", data |-> <<8>>,
      mime |-> Undef, view |-> TRUE],
     [op |-> "createWritable", path |-> "a.txt", dst |-> "a.txt", data |-> <<>>,
      mime |-> Undef],
     [op |-> "createOverwritable", path |-> "a.txt", dst |-> "a.txt", data |-> <<>>,
      mime |-> Undef],
     [op |-> "close", path |-> "a.txt", dst |-> "a.txt", data |-> <<>>, mime |-> Undef],
     [op |-> "open", path |-> "a.txt", dst |-> "a.txt", data |-> <<>>, mime |-> Undef]}

\* a sequential caller; a stream is requested when there is none yet, close()
\* is called on an open manager and open() on a closed one
CleanupInvoke ==
    \E c \in CleanupCalls :
        /\ Len(fops) < MaxCleanupOps
        /\ Quiet
        /\ c.op \in {"createWritable", "createOverwritable"} => streams = <<>>
        /\ c.op = "close" => opened
        /\ c.op = "open" => ~opened
        /\ IF Decorator(c.op) = "W" THEN InvokeW ELSE InvokeR
        /\ fops' = Append(fops, Fresh(c))
        /\ UNCHANGED <<cvars, blobs, nextId, opened, faults, written, streams>>

\* The blob store and the engine can reject more than once in a run: a
\* rejection that has happened no longer counts against the next one, so a
\* step that handles a failure can fail as well.
FaultAgain ==
    /\ faults = MaxFaults
    /\ faults' = 0
    /\ UNCHANGED <<mvars, cvars, blobs, nextId, opened, fops, written, streams>>

CleanupNext ==
    \/ CleanupInvoke
    \/ FaultAgain
    \/ \E i \in 1..Len(mops) : FsBeginW(i)
    \/ \E i \in 1..Len(mops) : FsBeginR(i)
    \/ \E i \in 1..Len(mops) : ManagerConnect(i)
    \/ \E i \in 1..Len(mops) : ManagerDirs(i)
    \/ \E i \in 1..Len(mops) : ManagerUndo(i)
    \/ \E i \in 1..Len(mops) : ManagerDisconnect(i)
    \/ \E i \in 1..Len(mops) : ManagerDrop(i)
    \/ \E i \in 1..Len(mops) : WriteAlloc(i)
    \/ \E i \in 1..Len(mops) : WriteStage(i)
    \/ \E i \in 1..Len(mops) : WriteAbort(i)
    \/ \E i \in 1..Len(mops) : WriteClose(i)
    \/ \E i \in 1..Len(mops) : WriteCreate(i)
    \/ \E i \in 1..Len(mops) : WriteCleanup(i)
    \/ \E i \in 1..Len(mops) : ReadCatalog(i)
    \/ \E i \in 1..Len(mops) : ReadHandle(i)
    \/ \E i \in 1..Len(mops) : ReadDelete(i)
    \/ \E i \in 1..Len(mops) : ReadGetFile(i)
    \/ \E i \in 1..Len(mops) : CopyRead(i)
    \/ \E i \in 1..Len(mops) : CopyHandle(i)
    \/ \E i \in 1..Len(mops) : CopyDelete(i)
    \/ \E i \in 1..Len(mops) : CopyGetFile(i)
    \/ \E i \in 1..Len(mops) : CopyAlloc(i)
    \/ \E i \in 1..Len(mops) : CopyStage(i)
    \/ \E i \in 1..Len(mops) : CopyAbort(i)
    \/ \E i \in 1..Len(mops) : CopyClose(i)
    \/ \E i \in 1..Len(mops) : CopyCatalog(i)
    \/ \E i \in 1..Len(mops) : CopyCleanup(i)
    \/ \E i \in 1..Len(mops) : RemoveRead(i)
    \/ \E i \in 1..Len(mops) : RemoveBlob(i)
    \/ \E i \in 1..Len(mops) : RemoveCatch(i)
    \/ \E i \in 1..Len(mops) : RemoveDelete(i)
    \/ \E i \in 1..Len(mops) : ExistsRead(i)
    \/ \E i \in 1..Len(mops) : ExistsProbe(i)
    \/ \E i \in 1..Len(mops) : ExistsDelete(i)
    \/ \E i \in 1..Len(mops) : OverwriteRead(i)
    \/ \E i \in 1..Len(mops) : OverwriteAlloc(i)
    \/ \E i \in 1..Len(mops) : OverwriteStage(i)
    \/ \E i \in 1..Len(mops) : OverwriteAbort(i)
    \/ \E i \in 1..Len(mops) : OverwriteClose(i)
    \/ \E i \in 1..Len(mops) : OverwriteUpdate(i)
    \/ \E i \in 1..Len(mops) : OverwriteCleanup(i)
    \/ \E i \in 1..Len(mops) : OverwriteRemoveOld(i)
    \/ \E i \in 1..Len(mops) : CreateWritableAlloc(i)
    \/ \E i \in 1..Len(mops) : CreateWritableOpen(i)
    \/ \E i \in 1..Len(mops) : CreateWritableCleanup(i)
    \/ \E i \in 1..Len(mops) : CreateOverwritableRead(i)
    \/ \E i \in 1..Len(mops) : CreateOverwritableAlloc(i)
    \/ \E i \in 1..Len(mops) : CreateOverwritableOpen(i)
    \/ \E i \in 1..Len(mops) : CreateOverwritableCleanup(i)
    \/ \E s \in Streams : Quiet /\ StreamWrite(s)
    \/ \E s \in Streams : Quiet /\ StreamWriteDead(s)
    \/ \E s \in Streams : Quiet /\ StreamNotOpen(s)
    \/ \E s \in Streams : StreamNotOpenRemove(s)
    \/ \E s \in Streams : Quiet /\ StreamClosed(s)
    \/ \E s \in Streams : Quiet /\ StreamCloseWriter(s)
    \/ \E s \in Streams : Quiet /\ StreamCloseDead(s)
    \/ \E s \in Streams : WritableCreate(s)
    \/ \E s \in Streams : OverwritableUpdate(s)
    \/ \E s \in Streams : StreamCleanup(s)
    \/ \E s \in Streams : OverwritableRemoveOld(s)
    \/ \E s \in Streams : Quiet /\ OverwritableMeta(s)
    \/ \E s \in Streams : OverwritableUnstage(s)
    \/ \E s \in Streams : Quiet /\ StreamAbortWriter(s)
    \/ \E s \in Streams : StreamAbortUnstage(s)
    \/ \E s \in Streams : Quiet /\ StreamAbortClosed(s)
    \/ \E i \in 1..Len(mops) : FsSettle(i)
    \/ \E i \in 1..Len(mops) : FsFinally(i)

\* ======================================================== specifications
vars == <<mvars, cvars, fvars>>

MutexNext ==
    \/ InvokeW /\ UNCHANGED <<cvars, fvars>>
    \/ InvokeR /\ UNCHANGED <<cvars, fvars>>
    \/ \E i \in 1..Len(mops) : BeginW(i) /\ UNCHANGED <<cvars, fvars>>
    \/ \E i \in 1..Len(mops) : BeginR(i) /\ UNCHANGED <<cvars, fvars>>
    \/ \E i \in 1..Len(mops) : \E out \in {"ok", "err"} : Settle(i, out) /\ UNCHANGED <<cvars, fvars>>
    \/ \E i \in 1..Len(mops) : Finally(i) /\ UNCHANGED <<cvars, fvars>>

SpecMutex == Init /\ [][MutexNext]_vars

\* The promise callbacks of an invocation (.then, .finally) run once their
\* promise has settled, and every started method settles.
MutexProgress ==
    \E i \in 1..Len(mops) :
        /\ \/ BeginW(i)
           \/ BeginR(i)
           \/ \E out \in {"ok", "err"} : Settle(i, out)
           \/ Finally(i)
        /\ UNCHANGED <<cvars, fvars>>
SpecMutexLive == Init /\ [][MutexNext]_vars /\ WF_vars(MutexProgress)

SpecCatalog == Init /\ [][CatalogNext]_vars

SpecList == Init /\ [][ListNext]_vars
SpecSize == Init /\ [][SizeNext]_vars

SpecFs == Init /\ [][FsNext]_vars

SpecFile == Init /\ [][FileNext]_vars

SpecOverwrite == Init /\ [][OverwriteNext]_vars

SpecWritable == Init /\ [][WritableNext]_vars

SpecLife == Init /\ [][LifeNext]_vars

SpecReopen == Init /\ [][ReopenNext]_vars

SpecMeta == Init /\ [][MetaNext]_vars
SpecDrain == Init /\ [][DrainNext]_vars
SpecHeal == Init /\ [][HealNext]_vars
SpecOwn == Init /\ [][OwnNext]_vars
SpecChunk == Init /\ [][ChunkNext]_vars
SpecCleanup == Init /\ [][CleanupNext]_vars

\* ------------------------------------------------------- scheduler claims
MOps == 1..Len(mops)
Running(i) == mops[i].st = "running"
Started(i) == mops[i].st # "pending"
Completed(i) == mops[i].st \in {"settled", "done"}

\* C1: no writer's method body executes while another writer's or any
\* reader's method body of the same instance executes.
C1_MutualExclusion ==
    \A i, j \in MOps :
        (i # j /\ mops[i].kind = "W" /\ Running(i)) => ~Running(j)

\* C2: writers start and complete in the order in which they were invoked.
C2_WriterFifo ==
    \A i, j \in MOps :
        (i < j /\ mops[i].kind = "W" /\ mops[j].kind = "W") =>
            /\ Started(j) => Started(i)
            /\ Completed(j) => Completed(i)

\* C3: a reader invoked after a writer does not start before that writer has
\* completed, a writer invoked after a reader does not start before that
\* reader has completed, and a reader invoked after a writer never shares a
\* slot with a reader invoked before that writer.
C3_GroupOrder ==
    /\ \A i, j \in MOps :
          (i < j /\ mops[i].kind # mops[j].kind /\ Started(j)) => Completed(i)
    /\ \A r, w, r2 \in MOps :
          (r < w /\ w < r2 /\ mops[r].kind = "R" /\ mops[w].kind = "W"
             /\ mops[r2].kind = "R") => mops[r].slot # mops[r2].slot

\* C4: every reader of the R-slot at the head of the queue can start at once,
\* whatever the other readers of the slot are doing.
C4_ReadersConcurrent ==
    \A i \in MOps :
        (mops[i].kind = "R" /\ mops[i].st = "pending"
           /\ mq # <<>> /\ mq[1] = mops[i].slot) => ReadyR(Sched, i)

\* two readers of one slot, the later one already finished while the earlier runs
C4_Witness ==
    \E i, j \in MOps :
        /\ i < j
        /\ mops[i].kind = "R" /\ mops[j].kind = "R"
        /\ mops[i].slot = mops[j].slot
        /\ Running(i)
        /\ mops[j].st = "done"

\* C5: a rejected method releases the scheduler as a fulfilled one does: the
\* caller receives the method's own outcome, and while an invocation is still
\* waiting some invocation is running, about to call next, or ready to start.
C5_FailureReleases ==
    /\ \A i \in MOps : mops[i].st = "done" => mops[i].res = mops[i].out
    /\ (\E i \in MOps : mops[i].st = "pending") =>
           \E j \in MOps :
              \/ mops[j].st \in {"running", "settled"}
              \/ mops[j].st = "pending" /\ mops[j].kind = "W" /\ ReadyW(Sched, j)
              \/ mops[j].st = "pending" /\ mops[j].kind = "R" /\ ReadyR(Sched, j)

\* a writer rejected, and the writer queued behind it in the same slot runs
C5_Witness ==
    \E i, j \in MOps :
        /\ i < j
        /\ mops[i].kind = "W" /\ mops[j].kind = "W"
        /\ mops[i].slot = mops[j].slot
        /\ mops[i].st = "done" /\ mops[i].res = "err"
        /\ Running(j)

\* --------------------------------------------------------- catalog claims
Unique(tab) ==
    \A r1, r2 \in tab :
        (r1.fullpath = r2.fullpath \/ r1.entityid = r2.entityid) => r1 = r2

\* C6: after every call no two rows share a fullpath and no two rows share an
\* entityid, and a call that fails leaves the table as it was.
C6_CatalogUnique ==
    [][Unique(catalog') /\ (cres'.err # "none" => catalog' = catalog)]_vars

\* a row is stored and the latest create / copy to a free path was refused
\* because its entity id is the stored row's
C6_Witness ==
    /\ Cardinality(catalog) = 1
    /\ cres.op \in {"create", "copy"}
    /\ cres.err = "ConstraintError"

\* ----------------------------------------------------- ManagedOpfs claims
\* every entry of main/ other than e is as it was
OtherBlobsKept(e) ==
    \A x \in (DOMAIN blobs) \ {e} : x \in DOMAIN blobs' /\ blobs'[x] = blobs[x]

\* C7: writeFile to a path that has a row fails with FileExists, leaves the
\* table and every other blob as they were, and removes the blob it staged
\* (the blob store and the engine working without fault).
C7_WriteExisting ==
    [][\A i \in FOps : fops[i].op = "write" =>
          /\ fops'[i] # fops[i] => OtherBlobsKept(fops'[i].eid)
          /\ (fops[i].pc = "create" /\ fops'[i].pc # "create" /\ NoFault
                /\ RowsAt(catalog, fops[i].path) # {}) =>
                 /\ fops'[i].pc = "cleanup"
                 /\ fops'[i].err = "FileExists"
                 /\ catalog' = catalog
                 /\ blobs' = blobs
          /\ (fops[i].pc = "cleanup" /\ fops'[i].pc = "ret" /\ NoFault) =>
                 /\ fops'[i].err = fops[i].err
                 /\ catalog' = catalog
                 /\ fops[i].eid \notin DOMAIN blobs'
          /\ (fops[i].pc = "ret" /\ fops[i].err # "none" /\ fops'[i].pc # "ret") =>
                 mops'[i].out = "err"
      ]_vars

\* a writeFile with another MIME type was refused for a path whose row stays,
\* and its staged blob is gone
C7_Witness ==
    \E i \in FOps :
        /\ fops[i].op = "write"
        /\ fops[i].pc = "ret"
        /\ fops[i].err = "FileExists"
        /\ faults = 0
        /\ fops[i].eid \notin DOMAIN blobs
        /\ \E r \in catalog :
              /\ r.fullpath = fops[i].path
              /\ r.hash_md5 # Md5(fops[i].data)
              /\ r.entityid \in DOMAIN blobs

\* C8: when writeFile fails after it allocated its entity id, no blob of that
\* name is left in main/ and no row carries it.
C8_NoBlobAfterFailure ==
    \A i \in FOps :
        (fops[i].op = "write" /\ fops[i].pc = "ret" /\ fops[i].err # "none"
           /\ fops[i].eid # 0) =>
            /\ fops[i].eid \notin DOMAIN blobs
            /\ \A r \in catalog : r.entityid # fops[i].eid

\* the MIME type a row gets from writeFile(p, d, {mimeType})
MimeOfWrite(w) ==
    IF w.mime # Undef THEN w.mime
    ELSE IF w.path = "a.txt" THEN "text/plain" ELSE "application/octet-stream"

\* C9: while the row committed by writeFile(p, d, opts) is still the row of p,
\* it and its blob carry |d|, the checksum of d, the chosen or inferred MIME
\* type and the bytes d, and a readFile(p) that read it returns exactly these.
C9_RoundTrip ==
    /\ \A w \in written : \A r \in catalog :
          (r.entityid = w.eid /\ r.fullpath = w.path) =>
              /\ r.cont_len = Len(w.data)
              /\ r.hash_md5 = Md5(w.data)
              /\ r.mime_typ = MimeOfWrite(w)
              /\ w.eid \in DOMAIN blobs
              /\ blobs[w.eid] = w.data
    /\ \A j \in FOps :
          (fops[j].op = "read" /\ fops[j].pc = "ret" /\ fops[j].err = "none") =>
              \A w \in written :
                  (w.eid = FileOf(fops[j]).entityId /\ w.path = fops[j].path) =>
                      /\ FileOf(fops[j]).size = Len(w.data)
                      /\ FileOf(fops[j]).checksum = Md5(w.data)
                      /\ FileOf(fops[j]).type = MimeOfWrite(w)
                      /\ FileOf(fops[j]).bytes = w.data

\* a readFile returned the one byte and the explicit MIME type of a writeFile
C9_Witness ==
    \E j \in FOps :
        /\ fops[j].op = "read" /\ fops[j].pc = "ret" /\ fops[j].err = "none"
        /\ FileOf(fops[j]).bytes = <<7>>
        /\ FileOf(fops[j]).size = 1
        /\ FileOf(fops[j]).type = "image/png"
        /\ \E w \in written :
              w.eid = FileOf(fops[j]).entityId /\ w.path = fops[j].path

\* the step in which moveFile's catalog.move succeeds
MoveDone(i) ==
    /\ fops[i].op = "move"
    /\ fops[i].pc = "move"
    /\ fops'[i].pc = "ret"
    /\ fops'[i].err = "none"

\* the row of b after the move is the row of a before it, under its new path,
\* its blob exists, and main/ is as it was
MoveKeeps(a, b) ==
    /\ ExistsFile(catalog', blobs', b)
    /\ CatRead(catalog', b) =
          [CatRead(catalog, a) EXCEPT !.fullpath = b, !.path_seg = Segments(b)]
    /\ blobs' = blobs

CopyDone(i) ==
    /\ fops[i].op = "copy"
    /\ fops[i].pc = "ccopy"
    /\ fops'[i].pc = "ret"
    /\ fops'[i].err = "none"

\* C11: after a successful copyFile(a, b), a's row and blob are unchanged, b
\* has a row with a fresh entity id different from a's, b's blob is
\* byte-equal to a's blob, and b's row carries a's other columns.
C11_CopyFile ==
    [][\A i \in FOps : fops[i].op = "copy" =>
          /\ fops'[i] # fops[i] => OtherBlobsKept(fops'[i].eid)
          /\ CopyDone(i) =>
                LET ra == CatRead(catalog, fops[i].path)
                    rb == CatRead(catalog', fops[i].dst)
                IN  /\ catalog' = catalog \cup {rb}
                    /\ blobs' = blobs
                    /\ rb.entityid = fops[i].eid
                    /\ \A r \in catalog : r.entityid # rb.entityid
                    /\ rb = [ra EXCEPT !.fullpath = fops[i].dst,
                                       !.path_seg = Segments(fops[i].dst),
                                       !.entityid = fops[i].eid]
                    /\ ra.entityid \in DOMAIN blobs
                    /\ rb.entityid \in DOMAIN blobs
                    /\ blobs[rb.entityid] = blobs[ra.entityid]
      ]_vars

\* C12: when copyFile fails after it allocated the destination entity id
\* (destination exists, source row gone, blob write or close fault), no row
\* carries that id and no blob of that name is left in main/.
C12_CopyFailure ==
    \A i \in FOps :
        (fops[i].op = "copy" /\ fops[i].pc = "ret" /\ fops[i].err # "none"
           /\ fops[i].eid # 0) =>
            /\ fops[i].eid \notin DOMAIN blobs
            /\ \A r \in catalog : r.entityid # fops[i].eid

\* C13: when removeFile(p) returns successfully, p has no row, the blob its
\* row named is gone and exists(p) is false; a removeFile(p) that finds no
\* row fails with FileNotFound and changes neither the table nor main/.
C13_RemoveFile ==
    [][\A i \in FOps : fops[i].op = "remove" =>
          /\ (fops[i].pc = "rdelete" /\ fops'[i].pc = "ret") =>
                 /\ fops'[i].err = "none"
                 /\ RowsAt(catalog', fops[i].path) = {}
                 /\ fops[i].old \notin DOMAIN blobs'
                 /\ ~ExistsFile(catalog', blobs', fops[i].path)
          /\ (fops[i].pc = "rread" /\ fops'[i].pc # "rread" /\ NoFault
                /\ RowsAt(catalog, fops[i].path) = {}) =>
                 /\ fops'[i].pc = "rcatch"
                 /\ fops'[i].err = "FileNotFound"
                 /\ catalog' = catalog /\ blobs' = blobs
          /\ (fops[i].pc = "rcatch" /\ fops[i].err = "FileNotFound"
                /\ fops'[i].pc = "ret") =>
                 /\ fops'[i].err = "FileNotFound"
                 /\ catalog' = catalog /\ blobs' = blobs
      ]_vars

\* C17: readFile of a path whose row names a missing blob deletes that row
\* and fails with FileNotFound.
C17_ReadDangling ==
    [][\A i \in FOps :
          (fops[i].op = "read" /\ fops[i].pc = "heal" /\ fops'[i].pc # "heal"
             /\ NoFault) =>
              /\ fops'[i].pc = "ret"
              /\ fops'[i].err = "FileNotFound"
              /\ RowsAt(catalog', fops[i].path) = {}
      ]_vars

\* C18: exists(filePath) answers true only after it read a row and found the
\* blob that row names; when that blob is missing it deletes the row and
\* answers false; when there is no row it answers false and changes nothing.
C18_Exists ==
    [][\A i \in FOps : fops[i].op = "exists" =>
          /\ (fops[i].pc = "eread" /\ fops'[i].pc # "eread" /\ NoFault) =>
                 /\ catalog' = catalog /\ blobs' = blobs
                 /\ IF RowsAt(catalog, fops[i].path) = {}
                    THEN fops'[i].pc = "ret" /\ fops'[i].ret = "false"
                         /\ fops'[i].err = "none"
                    ELSE fops'[i].pc = "eprobe" /\ fops'[i].ret = "none"
                         /\ fops'[i].old = CatRead(catalog, fops[i].path).entityid
          /\ (fops[i].pc = "eprobe" /\ fops'[i].pc # "eprobe" /\ NoFault) =>
                 /\ fops'[i].err = "none"
                 /\ blobs' = blobs /\ catalog' = catalog
                 /\ IF fops[i].old \in DOMAIN blobs
                    THEN fops'[i].pc = "ret" /\ fops'[i].ret = "true"
                    ELSE fops'[i].pc = "eheal" /\ fops'[i].ret = "none"
          /\ (fops[i].pc = "eheal" /\ fops'[i].pc # "eheal" /\ NoFault) =>
                 /\ fops'[i].pc = "ret" /\ fops'[i].err = "none"
                 /\ fops'[i].ret = "false"
                 /\ blobs' = blobs
                 /\ RowsAt(catalog', fops[i].path) = {}
          /\ (fops[i].ret # "true" /\ fops'[i].ret = "true") =>
                 /\ fops[i].pc = "eprobe"
                 /\ fops[i].old \in DOMAIN blobs
      ]_vars

\* exists found a row whose blob was missing, answered false, and the row is gone
C18_Witness ==
    \E i \in FOps :
        /\ fops[i].op = "exists" /\ fops[i].pc = "ret"
        /\ fops[i].ret = "false" /\ fops[i].old # 0
        /\ fops[i].old \notin DOMAIN blobs
        /\ RowsAt(catalog, fops[i].path) = {}

\* C19: removeFile(p) whose row names a missing blob deletes the row and
\* fails with a FileExists error; removeFile(p) without a row fails with
\* FileNotFound (the engine answering without fault).
C19_RemoveDangling ==
    [][\A i \in FOps : fops[i].op = "remove" =>
          /\ (fops[i].pc = "rentry" /\ fops'[i].pc # "rentry" /\ NoFault
                /\ fops[i].old \notin DOMAIN blobs) =>
                 /\ fops'[i].pc = "rcatch" /\ fops'[i].err = "FileExists"
          /\ (fops[i].pc = "rread" /\ fops'[i].pc # "rread" /\ NoFault
                /\ RowsAt(catalog, fops[i].path) = {}) =>
                 /\ fops'[i].pc = "rcatch" /\ fops'[i].err = "FileNotFound"
          /\ (fops[i].pc = "rcatch" /\ fops'[i].pc # "rcatch" /\ NoFault) =>
                 /\ fops'[i].pc = "ret"
                 /\ fops'[i].err = fops[i].err
                 /\ RowsAt(catalog', fops[i].path) = {}
          /\ (fops[i].pc = "ret" /\ fops[i].err # "none" /\ fops'[i].pc # "ret") =>
                 mops'[i].out = "err"
      ]_vars

\* removeFile met a row without blob: the row is gone and the error is FileExists
C19_Witness ==
    \E i \in FOps :
        /\ fops[i].op = "remove" /\ fops[i].pc = "ret"
        /\ fops[i].err = "FileExists" /\ fops[i].old # 0
        /\ faults = 1
        /\ RowsAt(catalog, fops[i].path) = {}

\* ------------------------------------------------ overwrite claims
\* C14: when overwriteFile(p, {data: d'}) commits, p's row is still under p,
\* names a new entity id, carries the checksum and size of d', and the new
\* blob holds d'; when it then removes the old entity and returns, the old
\* blob is gone, the row still names the new blob and that blob exists.
C14_OverwriteFile ==
    [][\A i \in FOps : fops[i].op = "overwrite" =>
          /\ (fops[i].pc = "oupdate" /\ fops'[i].pc = "oremold") =>
                LET r == CatRead(catalog', fops[i].path)
                IN  /\ RowsAt(catalog', fops[i].path) = {r}
                    /\ r.entityid = fops[i].eid
                    /\ r.entityid # fops[i].old
                    /\ CatRead(catalog, fops[i].path).entityid = fops[i].old
                    /\ r.hash_md5 = Md5(fops[i].data)
                    /\ r.cont_len = Len(fops[i].data)
                    /\ fops[i].eid \in DOMAIN blobs'
                    /\ blobs'[fops[i].eid] = fops[i].data
          /\ (fops[i].pc = "oremold" /\ fops'[i].pc # "oremold" /\ NoFault) =>
                 /\ fops'[i].pc = "ret" /\ fops'[i].err = "none"
                 /\ fops[i].old \notin DOMAIN blobs'
                 /\ OtherBlobsKept(fops[i].old)
                 /\ catalog' = catalog
                 /\ RowsAt(catalog', fops[i].path) # {}
                 /\ CatRead(catalog', fops[i].path).entityid = fops[i].eid
                 /\ fops[i].eid \in DOMAIN blobs'
      ]_vars

\* C15: overwriteFile and OverwritableFileStream.close remove the old blob
\* only in the step that follows a successful catalog.update; a failing
\* blob write, blob close or catalog.update changes neither the catalog nor
\* any blob, and the cleanup that follows removes the newly staged blob and
\* nothing else (unless that removal itself fails, which is only logged).
C15_OverwriteAtomic ==
    [][/\ \A i \in FOps : (fops[i].op = "overwrite" /\ fops'[i] # fops[i]) =>
            /\ (fops[i].old \in DOMAIN blobs /\ fops[i].old \notin DOMAIN blobs')
                   => fops[i].pc = "oremold"
            /\ fops'[i].pc = "oremold" =>
                   /\ fops[i].pc = "oupdate"
                   /\ CatRead(catalog', fops[i].path).entityid = fops[i].eid
            /\ fops'[i].pc = "oabort" =>
                   /\ fops[i].pc = "ostage"
                   /\ fops'[i].err # "none"
                   /\ catalog' = catalog /\ blobs' = blobs
            /\ fops'[i].pc = "ocleanup" =>
                   /\ fops[i].pc \in {"oabort", "oclose", "oupdate"}
                   /\ fops'[i].err # "none"
                   /\ catalog' = catalog /\ blobs' = blobs
            /\ fops[i].pc = "ocleanup" =>
                   /\ fops'[i].pc = "ret" /\ fops'[i].err = fops[i].err
                   /\ catalog' = catalog
                   /\ OtherBlobsKept(fops[i].eid)
                   /\ NoFault => fops[i].eid \notin DOMAIN blobs'
       /\ \A s \in Streams :
            (streams[s].kind = "o" /\ streams'[s] # streams[s]) =>
            /\ (streams[s].old \in DOMAIN blobs /\ streams[s].old \notin DOMAIN blobs')
                   => streams[s].pc = "remold"
            /\ streams'[s].pc = "remold" =>
                   /\ streams[s].pc = "commit"
                   /\ CatRead(catalog', streams[s].path).entityid = streams[s].eid
            /\ streams'[s].pc = "cleanup" =>
                   /\ streams[s].pc \in {"idle", "commit"}
                   /\ streams'[s].err # "none"
                   /\ catalog' = catalog /\ blobs' = blobs
            /\ streams[s].pc = "cleanup" =>
                   /\ streams'[s].closed /\ streams'[s].res = streams[s].err
                   /\ catalog' = catalog
                   /\ OtherBlobsKept(streams[s].eid)
                   /\ NoFault => streams[s].eid \notin DOMAIN blobs'
      ]_vars

\* overwriteFile failed at its commit: the row and the blob it names are
\* in place and the blob the call staged is gone
C15_Witness ==
    \E i \in FOps :
        /\ fops[i].op = "overwrite" /\ fops[i].pc = "ret" /\ fops[i].err # "none"
        /\ fops[i].eid # 0 /\ fops[i].eid \notin DOMAIN blobs
        /\ fops[i].old \in DOMAIN blobs
        /\ \E r \in catalog : r.fullpath = fops[i].path /\ r.entityid = fops[i].old

\* ------------------------------------------------ racing overwrites
\* overwriteFile call i is at its catalog.update / has committed
OpCommitting(i) == fops[i].op = "overwrite" /\ fops[i].pc = "oupdate"
OpCommitted(i) ==
    /\ fops[i].op = "overwrite" /\ fops[i].old # 0 /\ fops[i].eid # 0
    /\ fops[i].pc = "oremold" \/ (fops[i].pc = "ret" /\ fops[i].err = "none")

\* stream s is at the catalog.update of its data commit / has committed
StreamCommitting(s) == streams[s].kind = "o" /\ streams[s].pc = "commit"
StreamCommitted(s) ==
    /\ streams[s].kind = "o" /\ streams[s].upd
    /\ streams[s].pc = "remold"
         \/ (streams[s].pc = "idle" /\ streams[s].closed /\ streams[s].res = "ok")

\* the row of path p no longer names entity e
Stale(p, e) == \A r \in RowsAt(catalog, p) : r.entityid # e

\* C16: of the overwrites (overwriteFile calls and data-writing
\* OverwritableFileStreams) that read the same old entity id of a path, at
\* most one commits: a commit that finds the row naming its old id succeeds
\* and rotates the row to its new id, one that finds it no longer naming its
\* old id fails with FileNotFound and leaves the catalog and every blob as they
\* are, and its cleanup touches no row and no blob except its own new one,
\* which no row names.
C16_OverwriteRace ==
    [][/\ \A i, j \in FOps :
            (i # j /\ OpCommitted(i) /\ OpCommitted(j)
               /\ fops[i].path = fops[j].path) => fops[i].old # fops[j].old
       /\ \A s, t \in Streams :
            (s # t /\ StreamCommitted(s) /\ StreamCommitted(t)
               /\ streams[s].path = streams[t].path) => streams[s].old # streams[t].old
       /\ \A i \in FOps : \A s \in Streams :
            (OpCommitted(i) /\ StreamCommitted(s)
               /\ fops[i].path = streams[s].path) => fops[i].old # streams[s].old
       /\ \A i \in FOps :
            /\ (OpCommitting(i) /\ fops'[i] # fops[i] /\ NoFault
                   /\ Stale(fops[i].path, fops[i].old)) =>
                   /\ fops'[i].pc = "ocleanup" /\ fops'[i].err = "FileNotFound"
                   /\ catalog' = catalog /\ blobs' = blobs
            /\ (OpCommitting(i) /\ fops'[i] # fops[i] /\ NoFault
                   /\ ~Stale(fops[i].path, fops[i].old)) =>
                   /\ fops'[i].pc = "oremold"
                   /\ CatRead(catalog', fops[i].path).entityid = fops[i].eid
            /\ (fops[i].op = "overwrite" /\ fops[i].pc = "ocleanup"
                   /\ fops'[i] # fops[i]) =>
                   /\ catalog' = catalog
                   /\ OtherBlobsKept(fops[i].eid)
                   /\ \A r \in catalog : r.entityid # fops[i].eid
       /\ \A s \in Streams :
            /\ (StreamCommitting(s) /\ streams'[s] # streams[s] /\ NoFault
                   /\ Stale(streams[s].path, streams[s].old)) =>
                   /\ streams'[s].pc = "cleanup" /\ streams'[s].err = "FileNotFound"
                   /\ catalog' = catalog /\ blobs' = blobs
            /\ (StreamCommitting(s) /\ streams'[s] # streams[s] /\ NoFault
                   /\ ~Stale(streams[s].path, streams[s].old)) =>
                   /\ streams'[s].pc = "remold"
                   /\ CatRead(catalog', streams[s].path).entityid = streams[s].eid
            /\ (streams[s].kind = "o" /\ streams[s].pc = "cleanup"
                   /\ streams'[s] # streams[s]) =>
                   /\ streams'[s].res = streams[s].err
                   /\ catalog' = catalog
                   /\ OtherBlobsKept(streams[s].eid)
                   /\ \A r \in catalog : r.entityid # streams[s].eid
      ]_vars

\* a stream and overwriteFile read the same old id; overwriteFile committed,
\* the stream's close failed with FileNotFound and removed its own blob only
C16_Witness ==
    \E i \in FOps : \E s \in Streams :
        /\ OpCommitted(i) /\ fops[i].pc = "ret"
        /\ streams[s].kind = "o" /\ streams[s].upd /\ streams[s].closed
        /\ streams[s].path = fops[i].path /\ streams[s].old = fops[i].old
        /\ streams[s].res = "FileNotFound"
        /\ streams[s].eid \notin DOMAIN blobs
        /\ fops[i].eid \in DOMAIN blobs
        /\ \E r \in catalog : r.fullpath = fops[i].path /\ r.entityid = fops[i].eid

\* ------------------------------------------------ writable-stream claims
\* C20: WritableFileStream.close commits or cleans up.  When closing the
\* writer or catalog.create fails (catalog.create fails with FileExists when
\* the path has a row), no row is added and no blob changes, and the cleanup
\* that follows removes the staged blob and nothing else (unless that
\* removal itself fails, which is only logged), closes the stream and
\* rethrows the error.  When both succeed, the path has exactly one row, with
\* the stream's entity id, accumulated size and checksum, the blob holds the
\* accumulated bytes, and the stream is closed.
C20_WritableClose ==
    [][\A s \in Streams : (streams[s].kind = "w" /\ streams'[s] # streams[s]) =>
          /\ streams'[s].pc = "cleanup" =>
                 /\ streams[s].pc \in {"idle", "commit"}
                 /\ streams'[s].err # "none"
                 /\ catalog' = catalog /\ blobs' = blobs
          /\ (streams[s].pc = "commit" /\ NoFault
                 /\ RowsAt(catalog, streams[s].path) # {}) =>
                 /\ streams'[s].pc = "cleanup"
                 /\ streams'[s].err = "FileExists"
          /\ streams[s].pc = "cleanup" =>
                 /\ streams'[s].pc = "idle" /\ streams'[s].closed
                 /\ streams'[s].res = streams[s].err
                 /\ catalog' = catalog
                 /\ OtherBlobsKept(streams[s].eid)
                 /\ NoFault => streams[s].eid \notin DOMAIN blobs'
          /\ (streams[s].pc = "commit" /\ streams'[s].pc = "idle") =>
                 LET r == CatRead(catalog', streams[s].path)
                 IN  /\ RowsAt(catalog, streams[s].path) = {}
                     /\ RowsAt(catalog', streams[s].path) = {r}
                     /\ catalog' = catalog \cup {r}
                     /\ r.entityid = streams[s].eid
                     /\ r.cont_len = streams[s].size
                     /\ r.cont_len = Len(streams[s].hashed)
                     /\ r.hash_md5 = Md5(streams[s].hashed)
                     /\ streams[s].eid \in DOMAIN blobs'
                     /\ blobs'[streams[s].eid] = streams[s].hashed
                     /\ blobs' = blobs
                     /\ streams'[s].closed /\ streams'[s].res = "ok"
      ]_vars

\* C20, for calls made on the stream without awaiting the earlier ones: a
\* close() whose writer.close() and catalog.create both succeeded leaves one
\* row for the path, and the blob of the stream's entity id remains.
C20_CloseCommits ==
    [][\A i \in 1..Len(fops) :
          (/\ i \in 1..Len(fops')
           /\ fops[i].op = "sclose"
           /\ fops[i].pc = "create" /\ fops'[i].pc = "done") =>
              /\ \E r \in catalog' :
                    /\ RowsAt(catalog', streams[1].path) = {r}
                    /\ r.entityid = streams[1].eid
              /\ streams[1].eid \in DOMAIN blobs'
      ]_vars

\* a stream's close met a row that writeFile created meanwhile: it failed
\* with FileExists, its staged blob is gone and the row is the other one
C20_Witness ==
    \E s \in Streams :
        /\ streams[s].kind = "w" /\ streams[s].pc = "idle" /\ streams[s].closed
        /\ streams[s].res = "FileExists"
        /\ streams[s].size = 1
        /\ streams[s].eid \notin DOMAIN blobs
        /\ \E r \in catalog :
              /\ r.fullpath = streams[s].path /\ r.entityid # streams[s].eid
              /\ r.entityid \in DOMAIN blobs

\* ------------------------------------------------ stream-lifecycle claims
\* C21: while the manager is open, a call of close() or abort() on a stream
\* that is closed (after a successful close, a failed close or an abort)
\* fails with "stream closed" and changes neither the catalog nor any blob.
C21_ClosedStream ==
    [][\A s \in Streams :
          (opened /\ streams[s].closed /\ streams[s].pc = "idle"
             /\ streams'[s] # streams[s]) =>
              /\ streams'[s].res \in {"Closed", "AbortClosed"}
              /\ streams'[s].pc = "idle" /\ streams'[s].closed
              /\ catalog' = catalog
              /\ blobs' = blobs
      ]_vars

\* a committed WritableFileStream was closed a second time: the call failed
\* and the blob its row names is still there
C21_Witness ==
    \E s \in Streams :
        /\ streams[s].kind = "w" /\ streams[s].closed /\ streams[s].res = "Closed"
        /\ streams[s].eid \in DOMAIN blobs
        /\ \E r \in catalog :
              r.fullpath = streams[s].path /\ r.entityid = streams[s].eid

\* C22: abort() on a stream that is not closed changes no row in either of
\* its steps; after writer.abort(), whether it failed or not, it removes the
\* staged blob and no other (unless that removal itself fails, which is only
\* logged) and marks the stream closed, so the path of a WritableFileStream
\* gets no row and the row and old blob of an OverwritableFileStream stay.
C22_Abort ==
    [][\A s \in Streams : streams'[s] # streams[s] =>
          /\ streams'[s].pc = "abort" =>
                 /\ streams[s].pc = "idle" /\ ~streams[s].closed
                 /\ catalog' = catalog /\ blobs' = blobs
          /\ streams[s].pc = "abort" =>
                 /\ streams'[s].pc = "idle" /\ streams'[s].closed
                 /\ streams'[s].res = IF streams[s].err = "none" THEN "aborted"
                                      ELSE streams[s].err
                 /\ catalog' = catalog
                 /\ \A r \in catalog' : r.entityid # streams[s].eid
                 /\ OtherBlobsKept(streams[s].eid)
                 /\ NoFault => streams[s].eid \notin DOMAIN blobs'
                 /\ streams[s].kind = "o" =>
                        \A r \in RowsAt(catalog, streams[s].path) :
                            r.entityid \in DOMAIN blobs => r.entityid \in DOMAIN blobs'
      ]_vars

\* C22, for calls made on the stream without awaiting the earlier ones: once
\* an abort() of a WritableFileStream that found the stream not closed has
\* returned, the path has no row.
C22_AbortedPath ==
    \A i \in 1..Len(fops) :
        (/\ fops[i].op = "sabort" /\ fops[i].pc = "done"
         /\ mops[i].st = "done" /\ mops[i].res = "ok") =>
            RowsAt(catalog, streams[1].path) = {}

\* writer.abort of an OverwritableFileStream failed: the stream is closed,
\* its staged blob is gone, the row still names the old blob
C22_Witness ==
    \E s \in Streams :
        /\ streams[s].kind = "o" /\ streams[s].aborted /\ streams[s].closed
        /\ streams[s].pc = "idle" /\ streams[s].res = "IoError"
        /\ streams[s].eid \notin DOMAIN blobs
        /\ streams[s].old \in DOMAIN blobs
        /\ \E r \in catalog :
              r.fullpath = streams[s].path /\ r.entityid = streams[s].old

\* ------------------------------------------------ closed-manager claims
\* C23: write() or close() on a stream while the manager is not open fails,
\* changes no row and removes the stream's staged blob and no other (unless
\* that removal itself fails, which is only logged); from then on a write on
\* that stream fails and no step of that stream changes the catalog, also
\* after the manager was opened again.
C23_NotOpen ==
    [][\A s \in Streams : streams'[s] # streams[s] =>
          /\ (~opened /\ streams[s].pc = "idle" /\ ~streams[s].closed) =>
                 /\ \/ streams'[s].pc = "noclean"
                    \/ streams'[s].res \in {"aborted", "IoError"}
                 /\ streams'[s].aborted
                 /\ catalog' = catalog
                 /\ OtherBlobsKept(streams[s].eid)
          /\ streams[s].pc = "noclean" =>
                 /\ streams'[s].pc = "idle"
                 /\ streams'[s].res = "NotOpen"
                 /\ catalog' = catalog
                 /\ OtherBlobsKept(streams[s].eid)
                 /\ NoFault => streams[s].eid \notin DOMAIN blobs'
          /\ (streams[s].aborted /\ streams'[s].writes # streams[s].writes) =>
                 streams'[s].res # "ok"
          /\ streams[s].aborted => catalog' = catalog
      ]_vars

\* C24: close() of an OverwritableFileStream that never wrote updates, when
\* the path has a row, only that row's MIME type, last_mod and, when one was
\* assigned to the stream, its description, and touches no blob; when the
\* path has no row it fails with FileNotFound and changes nothing.  In both
\* cases the step that follows removes the staged blob and no other (unless
\* that removal itself fails, which is only logged) and keeps the catalog.
C24_MetadataClose ==
    [][\A s \in Streams :
          (streams[s].kind = "o" /\ streams'[s] # streams[s]) =>
          /\ streams'[s].pc = "unstage" =>
                 /\ streams[s].pc = "idle" /\ ~streams[s].upd
                 /\ streams'[s].closed
                 /\ blobs' = blobs
                 /\ (NoFault /\ RowsAt(catalog, streams[s].path) = {}) =>
                        /\ streams'[s].err = "FileNotFound"
                        /\ catalog' = catalog
                 /\ (NoFault /\ RowsAt(catalog, streams[s].path) # {}) =>
                        LET r == CatRead(catalog, streams[s].path)
                        IN  /\ streams'[s].err = "none"
                            /\ \E now \in Times :
                                  catalog' = (catalog \ {r}) \cup
                                      {[r EXCEPT
                                          !.mime_typ = streams[s].mime,
                                          !.desc_raw = IF streams[s].desc = Undef
                                                       THEN @ ELSE streams[s].desc,
                                          !.desc_fts = IF streams[s].desc = Undef
                                                       THEN @
                                                       ELSE ToFtsStr(streams[s].desc),
                                          !.last_mod = now]}
                 /\ ~NoFault => catalog' = catalog /\ streams'[s].err # "none"
          /\ streams[s].pc = "unstage" =>
                 /\ streams'[s].pc = "idle"
                 /\ streams'[s].res = IF streams[s].err = "none" THEN "ok"
                                      ELSE streams[s].err
                 /\ catalog' = catalog
                 /\ OtherBlobsKept(streams[s].eid)
                 /\ NoFault => streams[s].eid \notin DOMAIN blobs'
      ]_vars

\* the row was removed while the stream was open: its metadata-only close
\* failed with FileNotFound and its staged blob is gone
C24_Witness ==
    \E s \in Streams :
        /\ streams[s].kind = "o" /\ ~streams[s].upd /\ streams[s].closed
        /\ streams[s].pc = "idle" /\ streams[s].res = "FileNotFound"
        /\ streams[s].eid \notin DOMAIN blobs
        /\ RowsAt(catalog, streams[s].path) = {}

\* ------------------------------------------------ side-data claims
\* C25: overwriteFile(p, opts) with data, metadata, mimeType and description
\* all undefined returns successfully, whether or not p has a row, and its
\* steps change no row (last_mod included) and no blob and allocate no
\* entity id.
C25_OverwriteNothing ==
    [][\A i \in FOps :
          (fops[i].op = "overwrite" /\ ~fops[i].view /\ fops[i].mime = Undef
             /\ fops[i].pc # "ret" /\ fops'[i] # fops[i]) =>
              /\ fops'[i].pc \in {"oread", "ret"}
              /\ fops'[i].err = "none"
              /\ fops'[i].eid = 0 /\ fops'[i].old = 0
              /\ catalog' = catalog
              /\ blobs' = blobs
              /\ nextId' = nextId
              /\ faults' = faults
      ]_vars

\* the call returned while the path has a row and a blob
C25_Witness ==
    \E i \in FOps :
        /\ fops[i].op = "overwrite" /\ ~fops[i].view /\ fops[i].mime = Undef
        /\ fops[i].pc = "ret" /\ fops[i].err = "none"
        /\ \E r \in catalog : r.fullpath = fops[i].path /\ r.entityid \in DOMAIN blobs

\* ------------------------------------------------ catalog error mapping
\* the step is catalog.move(src, dst) / catalog.copy(src, dst, e)
IsMove(src, dst) ==
    /\ cres'.op = "move"
    /\ \E eager \in BOOLEAN :
          /\ catalog' = CatMove(catalog, src, dst, eager).tab
          /\ cres'.err = CatMove(catalog, src, dst, eager).err
IsCopy(src, dst, e) ==
    /\ cres'.op = "copy"
    /\ catalog' = CatCopy(catalog, src, dst, e).tab
    /\ cres'.err = CatCopy(catalog, src, dst, e).err

C27_ListPagination ==
    [][(cres'.op = "list" /\ cres' # cres) =>
          /\ cres'.inp.limit = Some(0) => cres'.out = <<>>
          /\ cres'.inp.offset >= Cardinality(Children(catalog, cres'.inp.dirPath))
                 => cres'.out = <<>>
      ]_vars

\* C28: with maxDescriptionSize = L and maxMetadataJsonSize = M, create and
\* update accept a description of exactly L/2 characters and reject one of
\* L/2 + 1 characters, accept metadata whose stringified JSON has exactly M
\* characters and reject one of M + 1 characters, and a rejected call leaves
\* the table unchanged.
C28_SizeLimits ==
    [][("inp" \in DOMAIN cres' /\ cres'.op \in {"create", "update"}) =>
        LET d == cres'.inp.description
            m == cres'.inp.metadata
            rejected == cres'.err = "ValiError"
        IN  /\ (d # Undef /\ Len(d) = MaxDescriptionSize \div 2 /\ m = Undef)
                    => ~rejected
            /\ (d # Undef /\ Len(d) = MaxDescriptionSize \div 2 + 1)
                    => rejected /\ catalog' = catalog
            /\ (m # Undef /\ Len(JsonStringify(m)) = MaxMetadataJsonSize /\ d = Undef)
                    => ~rejected
            /\ (m # Undef /\ Len(JsonStringify(m)) = MaxMetadataJsonSize + 1)
                    => rejected /\ catalog' = catalog]_vars

\* C29: in every operation a blob is created before the row that references
\* it is inserted, and a blob is removed only after the row that referenced it
\* has been deleted or repointed to another entity id; in particular
\* removeFile deletes the row before it removes the blob.
Referenced(tab) == {r.entityid : r \in tab}
C29_BlobBeforeRow == [][Referenced(catalog') \ Referenced(catalog) \subseteq DOMAIN blobs]_vars
C29_RowBeforeBlob ==
    [][(DOMAIN blobs) \ (DOMAIN blobs') \subseteq (EntityIds \ Referenced(catalog))]_vars
C29_Lifecycle == C29_BlobBeforeRow /\ C29_RowBeforeBlob

\* C30: a failure of a compensating step is only logged and never replaces
\* the cause the operation is handling. The compensating steps are: the
\* writer aborts of writeFile, copyFile and overwriteFile and of the not-open
\* branch of a stream's write and close; the removal of a staged blob in
\* writeFile, copyFile, overwriteFile, createWritable, createOverwritable and
\* in close and abort of the streams; the self-heal delete of a row in
\* readFile, copyFile and exists; the row deletes of removeFile; the removal
\* of the old blob after the commit of overwriteFile and of
\* OverwritableFileStream.close; the disconnect after a failed open. Whether
\* such a step fails or not, the operation goes on where it would have gone
\* with the error it had: it rejects with that error if there was one
\* (readFile and copyFile with the MopfsFileExistsError they raise for a row
\* whose blob is missing, a stream of a closed manager with "not open") and
\* resolves otherwise (exists with false); a step that fails changes no row
\* and no blob.
OpCleanupPcs ==
    {"wabort", "cleanup", "cabort", "ccleanup", "oabort", "ocleanup", "oremold",
     "cwcleanup", "cocleanup", "heal", "cheal", "eheal", "rcatch", "rdelete", "mundo"}
OpDeletePcs == {"heal", "cheal", "eheal", "rcatch", "rdelete"}
StreamCleanupPcs == {"cleanup", "remold", "unstage", "abort", "noclean"}
\* the error an operation settles with after the compensating step it is at
OpOutcome(o) == IF o.pc \in {"heal", "cheal"} THEN "FileExists" ELSE o.err
\* the result a stream method settles with after the compensating step it is at
StreamOutcome(st) ==
    IF st.pc = "noclean" THEN "NotOpen"
    ELSE IF st.err # "none" THEN st.err
    ELSE IF st.pc = "abort" THEN "aborted" ELSE "ok"
C30_CleanupLogged ==
    [][/\ \A i \in 1..Len(fops) :
            (fops[i].pc \in OpCleanupPcs /\ fops'[i] # fops[i]) =>
                /\ fops'[i].pc = IF fops[i].pc = "oabort" THEN "ocleanup" ELSE "ret"
                /\ fops'[i].err = OpOutcome(fops[i])
                /\ fops[i].pc = "eheal" => fops'[i].ret = "false"
                /\ (faults' > faults \/ (fops[i].pc \in OpDeletePcs /\ ~Connected)) =>
                       catalog' = catalog /\ blobs' = blobs
       /\ \A s \in 1..Len(streams) :
            /\ (streams[s].pc \in StreamCleanupPcs /\ streams'[s] # streams[s]) =>
                  /\ streams'[s].pc = "idle"
                  /\ streams'[s].res = StreamOutcome(streams[s])
                  /\ faults' > faults => catalog' = catalog /\ blobs' = blobs
            /\ (streams[s].pc = "idle" /\ streams'[s].pc = "noclean") =>
                  /\ streams'[s].err = streams[s].err
                  /\ catalog' = catalog /\ blobs' = blobs
       /\ \A i \in 1..Len(fops) :
            (fops[i].pc = "ret" /\ fops'[i].pc # "ret") =>
                mops'[i].out = IF fops[i].err = "none" THEN "ok" ELSE "err"]_vars

\* readFile found a row whose blob is missing, the delete of the row
\* failed, and the call is about to reject with MopfsFileExistsError
C30_Witness ==
    /\ faults = MaxFaults
    /\ \E i \in 1..Len(fops) :
          /\ fops[i].op = "read" /\ fops[i].pc = "ret"
          /\ fops[i].err = "FileExists"
          /\ \E r \in RowsAt(catalog, fops[i].path) : r.entityid \notin DOMAIN blobs

\* C31: write() of a zero-length chunk on an open stream changes no stream
\* state (size, hash, and for an OverwritableFileStream the updateEntityId
\* flag), so an OverwritableFileStream on which only empty chunks were written
\* closes as a metadata-only update: no step of it repoints a row or removes
\* the old blob.
C31_EmptyChunk ==
    [][\A s \in Streams :
          /\ StreamWriteEmpty(s) =>
                /\ streams'[s].upd = streams[s].upd
                /\ streams'[s].size = streams[s].size
                /\ streams'[s].hashed = streams[s].hashed
          /\ (/\ faults' = 0
              /\ streams[s].kind = "o"
              /\ streams[s].staged = <<>>
              /\ streams'[s] # streams[s]) =>
                /\ Referenced(catalog') = Referenced(catalog)
                /\ streams[s].old \in DOMAIN blobs => streams[s].old \in DOMAIN blobs']_vars

\* C32: provided every started operation eventually settles, every invoked
\* writer and reader eventually starts, and once invocations stop the queue
\* eventually becomes empty (and stays empty).
C32_Liveness ==
    /\ \A i \in 1..MaxOps :
          [](Len(mops) >= i => <>(Len(mops) >= i /\ mops[i].st # "pending"))
    /\ <>[](mq = <<>>)

\* all invocations were made, some had to wait behind another slot, and every
\* one has run to its end with the queue drained
C32_Witness ==
    /\ Len(mops) = MaxOps
    /\ Len(slots) >= 3
    /\ \A i \in 1..Len(mops) : mops[i].st = "done"
    /\ mq = <<>>

\* C33: for any interleaving of write() calls on one stream, also a write
\* issued while an earlier one is in flight, once every call has returned the
\* stream's size and hash, and the cont_len / hash_md5 committed by close(),
\* are the total length and the hash of the chunks whose write() resolved, in
\* invocation order.
RECURSIVE ResolvedChunks(_)
ResolvedChunks(n) ==
    IF n = 0 THEN <<>>
    ELSE ResolvedChunks(n - 1) \o
         (IF fops[n].op = "swrite" /\ mops[n].res = "ok" THEN fops[n].chunk ELSE <<>>)
C33_SizeAccounting ==
    (/\ streams # <<>>
     /\ \A i \in 1..Len(mops) : mops[i].st = "done") =>
        LET all == ResolvedChunks(Len(mops))
        IN  /\ streams[1].size = Len(all)
            /\ streams[1].hashed = all
            /\ \A r \in catalog : r.cont_len = Len(all) /\ r.hash_md5 = Md5(all)

\* C34: two WritableFileStreams created for the same path, which has no row,
\* and closed in any interleaving (no fault injected): exactly one close
\* succeeds, the other fails with FileExists and its staged blob is removed;
\* the single row of the path references the winner's entity id, whose blob
\* exists.
SamePathPair ==
    /\ Len(streams) = 2
    /\ written = {}
    /\ faults = 0
    /\ \A s \in Streams : /\ streams[s].kind = "w" /\ streams[s].path = "a.txt"
                           /\ streams[s].closed /\ streams[s].pc = "idle"
C34_TwoWritables ==
    SamePathPair =>
        \E win, lose \in Streams :
            /\ win # lose
            /\ streams[win].err = "none"
            /\ streams[lose].err = "FileExists"
            /\ streams[lose].eid \notin DOMAIN blobs
            /\ streams[win].eid \in DOMAIN blobs
            /\ blobs[streams[win].eid] = streams[win].staged
            /\ \E r \in catalog :
                  /\ RowsAt(catalog, "a.txt") = {r}
                  /\ r.entityid = streams[win].eid

\* the stream created second won: the first one's close came later, failed
\* with FileExists and removed its staged blob
C34_Witness ==
    /\ SamePathPair
    /\ streams[2].err = "none"
    /\ streams[1].err = "FileExists"
    /\ streams[1].eid \notin DOMAIN blobs

\* C35: after close() of a stream has succeeded, no later write(), close() or
\* abort() on that stream removes the blob it committed or changes a row,
\* also when the manager has been closed in the meantime.
Committed(s) ==
    /\ streams[s].closed
    /\ streams[s].eid \in DOMAIN blobs
    /\ \E r \in catalog :
          r.fullpath = streams[s].path /\ r.entityid = streams[s].eid
C35_CommittedKept ==
    [][\A s \in Streams :
          (Committed(s) /\ streams'[s] # streams[s]) =>
              /\ streams[s].eid \in DOMAIN blobs'
              /\ catalog' = catalog
      ]_vars

\* C36: whenever readFile, exists or copyFile deletes a catalog row as
\* self-heal, the blob named by the entityid stored in that row at the moment
\* of deletion is missing, for every interleaving with a stream commit on the
\* same path.
C36_SelfHeal ==
    [][\A i \in 1..Len(fops) :
          (fops[i].op \in {"read", "exists", "copy"} /\ fops'[i] # fops[i]) =>
              \A r \in catalog \ catalog' :
                  RowsAt(catalog', r.fullpath) = {} => r.entityid \notin DOMAIN blobs
      ]_vars

\* C37: without an injected fault, whenever no manager operation is in flight
\* and no stream is open, the blob names of main/ are exactly the entityid
\* values of the catalog (no orphan blob, no dangling row).
Quiescent ==
    /\ faults = 0
    /\ \A i \in 1..Len(mops) : mops[i].st = "done"
    /\ \A s \in Streams : streams[s].closed /\ streams[s].pc = "idle"
C37_Quiescent == Quiescent => DOMAIN blobs = Referenced(catalog)

\* C38: after any interleaving of copyFile(a, b) with an OverwritableFileStream
\* commit on a (no fault injected, nothing in flight), every row's cont_len
\* and hash_md5 are the length and the hash of the blob its entityid names.
C38_RowMatchesBlob ==
    Quiescent =>
        \A r \in catalog :
            r.entityid \in DOMAIN blobs =>
                /\ r.cont_len = Len(blobs[r.entityid])
                /\ r.hash_md5 = Md5(blobs[r.entityid])

\* C39: when ManagedOpfs.close() runs against a stream created before it, a
\* close() of the stream changes the catalog only while the catalog is still
\* connected and then succeeds; a close() that fails has left the catalog as it
\* was, no row names the stream's entity, and the staged blob is removed.
DrainStream == Len(streams) = 1 /\ ~streams[1].closed
C39_CloseAgainstStream ==
    [][DrainStream =>
         LET st == streams[1]
             st2 == streams'[1]
         IN  /\ catalog' # catalog =>
                    /\ Connected
                    /\ st2.closed /\ st2.err = "none"
                    /\ \E r \in catalog' : r.fullpath = st.path
             /\ (~Connected /\ faults' = faults /\ st2.pc # st.pc
                    /\ (st.pc = "commit" \/ st2.pc = "unstage")) =>
                    /\ catalog' = catalog
                    /\ st2.err = "NotConnected"
             /\ (st2.closed /\ st2.pc = "idle" /\ st2.err # "none"
                    /\ faults' = faults) =>
                    /\ st.eid \notin DOMAIN blobs'
                    /\ st.eid \notin Referenced(catalog')
                    /\ st2.res = st2.err
             /\ (~opened /\ st.pc = "idle" /\ st2.pc # "idle") =>
                    /\ catalog' = catalog /\ blobs' = blobs
                    /\ st2.pc = "noclean" /\ st2.aborted
             /\ (st.pc = "noclean" /\ st2.pc # "noclean"
                    /\ faults' = faults) =>
                    /\ catalog' = catalog
                    /\ st.eid \notin DOMAIN blobs'
                    /\ st.eid \notin Referenced(catalog')
                    /\ st2.pc = "idle" /\ st2.res = "NotOpen"
    ]_vars

\* the stream's close() reached catalog.create after disconnect(): it failed
\* with "Not connected" and its staged blob is gone
C39_Witness ==
    /\ Len(streams) = 1
    /\ ~Connected
    /\ streams[1].closed /\ streams[1].pc = "idle"
    /\ streams[1].res = "NotConnected"
    /\ streams[1].staged # <<>>
    /\ streams[1].eid \notin DOMAIN blobs
    /\ streams[1].eid \notin Referenced(catalog)

\* C40: queue discipline of the scheduler. A step that removes a slot from the
\* queue removes the slot of the operation whose next() runs, and every
\* operation that joined that slot has completed; the slot at the head of the
\* queue has been started; an operation joins only a slot that is in the queue.
Shifted == mq # <<>> /\ mq' = Tail(mq)
C40_QueueDiscipline ==
    [][/\ Shifted =>
             /\ \E i \in 1..Len(mops) :
                    /\ mops[i].st = "settled" /\ mops'[i].st = "done"
                    /\ mops[i].slot = mq[1]
             /\ \A j \in 1..Len(mops) :
                    mops[j].slot = mq[1] => mops'[j].st = "done"
       /\ mq' # <<>> => slots'[mq'[1]].started
       /\ Len(mops') > Len(mops) =>
             \E k \in 1..Len(mq') : mq'[k] = mops'[Len(mops')].slot
    ]_mvars

====
